---- MODULE Spec2Model ----
(***************************************************************************)
(* Model of the Base class of lmthing-beta (src/src/Base.ts): the hook     *)
(* store, the stabilization loop, the pending-update queue, the effect     *)
(* runner, the snapshot recorder and the output aggregator.                *)
(*                                                                         *)
(* JavaScript objects are modelled as entries of a heap (object id ->      *)
(* record); `hooks` is the array of object ids, so that closures which     *)
(* capture a hook object (setters, queued updates, output handles) keep    *)
(* referring to that object whatever happens to the array.  Control is a   *)
(* stack of frames: run() re-enters itself synchronously from setters.     *)
(* Primitive values are integers; `undefined` is a distinguished integer.  *)
(***************************************************************************)
EXTENDS Integers, Sequences, FiniteSets, TLC

\* ---------------------------------------------------------------- bounds
MaxRuns == 3           \* runs the external caller starts on one instance
PassBudget == 4        \* the caller starts no further run once this many passes ran
MaxQueued == 1         \* setter calls the caller makes that are only queued
ExtValues == {0, 1}    \* values an external caller passes to a setter / setInput

\* ------------------------------------------------------ values and hooks
DefaultMaxIterations == 1000

undefined == 0 - 1

NoCleanup == 0

\* An effect callback is a closure: its code, the call `act` its body makes
\* (if any), and what it captured in the pass that created it: the hook
\* object `id` behind the setter or output handle it uses and the value
\* `obs` it read.
Closure(code, act, id, obs) == [code |-> code, act |-> act, id |-> id, obs |-> obs]

NoAct == [op |-> "none", guard |-> "always", bound |-> 0, rel |-> FALSE, arg |-> 0]

NoClosure == Closure(0, NoAct, 0, 0)

\* A hook object with every field a Hook variant can carry; a field the
\* variant does not have reads as undefined / falsy.
BlankHook ==
  [type |-> "none", value |-> undefined, reducer |-> "none",
   current |-> undefined, callback |-> NoClosure, hasDeps |-> FALSE, deps |-> <<>>,
   cleanup |-> NoCleanup, hasRun |-> FALSE,
   namespace |-> "", key |-> "", enabled |-> FALSE]

StateHook(initialValue) ==
  [BlankHook EXCEPT !.type = "state", !.value = initialValue]

ReducerHook(reducer, initialState) ==
  [BlankHook EXCEPT !.type = "reducer", !.value = initialState,
                    !.reducer = reducer]

RefHook(initialValue) ==
  [BlankHook EXCEPT !.type = "ref", !.current = initialValue]

EffectHook(callback, hasDeps, deps) ==
  [BlankHook EXCEPT !.type = "effect", !.callback = callback,
                    !.hasDeps = hasDeps, !.deps = deps, !.hasRun = FALSE]

InputHook(v) ==
  [BlankHook EXCEPT !.type = "input", !.value = v]

OutputHook(type, namespace, key, value) ==
  [BlankHook EXCEPT !.type = type, !.namespace = namespace, !.key = key,
                    !.value = value, !.enabled = TRUE]

\* A value is a primitive or a reference to a plain object.  A plain object
\* lives in the heap beside the hook objects; its one property is `value`.
\* The reference to the object with id `id` is an integer below undefined,
\* so that === on references is identity.
ObjRef(id) == 0 - 1 - id
IsRef(v) == v < undefined
ObjId(v) == 0 - 1 - v

PlainObject(content) ==
  [BlankHook EXCEPT !.type = "object", !.value = content]

\* The reducers user functions pass to defReducer.
ApplyReducer(reducer, s, a) ==
  IF reducer = "add" THEN s + a ELSE s


\* ------------------------------------------------------- user functions
\* A user function is the sequence of capability calls it makes on every
\* pass (its call sites).  A site names the accessor, its arguments and the
\* setter calls the function makes with the value the accessor returned.
\* An expression is a constant (loc = 0) or the value returned at site loc.
Const(c) == [loc |-> 0, c |-> c]
Local(n) == [loc |-> n, c |-> 0]

\* Setter calls.  `obs` is the value the accessor returned in this pass.
\*   set:      setX(IF rel THEN obs + arg ELSE arg)
\*   setFn:    setX(prev => prev + arg)
\*   dispatch: dispatch(arg)
\* each made always, only if obs < bound ("lt") or only if obs >= bound ("ge").
Act(op, guard, bound, rel, arg) ==
  [op |-> op, guard |-> guard, bound |-> bound, rel |-> rel, arg |-> arg]
SetTo(v)            == Act("set", "always", 0, FALSE, v)
SetRel(d)           == Act("set", "always", 0, TRUE, d)
SetRelWhile(L, d)   == Act("set", "lt", L, TRUE, d)
SetRelFrom(L, d)    == Act("set", "ge", L, TRUE, d)
FnAdd(d)            == Act("setFn", "always", 0, TRUE, d)
FnAddWhile(L, d)    == Act("setFn", "lt", L, TRUE, d)
Dispatch(a)         == Act("dispatch", "always", 0, FALSE, a)
DispatchWhile(L, a) == Act("dispatch", "lt", L, FALSE, a)
\* Calls on the handle an output accessor returned: handle.disable() and
\* handle.enable().
Disable             == Act("disable", "always", 0, FALSE, 0)
Enable              == Act("enable", "always", 0, FALSE, 0)
\* Writes that go through no setter: ref.current = ref.current + d on the
\* cell a Ref accessor returned, and obj.value += d on the object an accessor
\* returned (or holds in current).
Assign(d)           == Act("assign", "always", 0, TRUE, d)
Mutate(d)           == Act("mutate", "always", 0, TRUE, d)

ActEnabled(a, obs) ==
  CASE a.guard = "lt" -> obs < a.bound
    [] a.guard = "ge" -> obs >= a.bound
    [] OTHER -> TRUE

BlankSite ==
  [kind |-> "none", init |-> undefined, reducer |-> "none", acts |-> <<>>,
   cb |-> 0, hasDeps |-> FALSE, deps |-> <<>>,
   target |-> 0, eact |-> NoAct,
   ns |-> "", key |-> "", val |-> Const(0), obj |-> FALSE, ext |-> "",
   when |-> [guard |-> "always", loc |-> 0, bound |-> 0]]

\* A call site inside a conditional: the call is made only in a pass where
\* the value returned at site loc passes the guard.
When(site, guard, loc, bound) ==
  [site EXCEPT !.when = [guard |-> guard, loc |-> loc, bound |-> bound]]

SiteCalled(site, locals) ==
  site.when.guard = "always" \/ ActEnabled(site.when, locals[site.when.loc])

DefState(init, acts) ==
  [BlankSite EXCEPT !.kind = "state", !.init = init, !.acts = acts]
DefReducer(reducer, init, acts) ==
  [BlankSite EXCEPT !.kind = "reducer", !.reducer = reducer, !.init = init,
                    !.acts = acts]
DefRef(init) ==
  [BlankSite EXCEPT !.kind = "ref", !.init = init]
DefEffect(cb, hasDeps, deps) ==
  [BlankSite EXCEPT !.kind = "effect", !.cb = cb, !.hasDeps = hasDeps,
                    !.deps = deps]
\* An effect whose callback makes the call `eact` on what call site `target`
\* returned (a setter, a dispatcher or an output handle).
DefEffectOn(cb, hasDeps, deps, target, eact) ==
  [DefEffect(cb, hasDeps, deps) EXCEPT !.target = target, !.eact = eact]
DefInput ==
  [BlankSite EXCEPT !.kind = "input"]
\* defState({ value: content }) and defRef({ value: content }): the initial
\* value is a plain object.
DefStateObj(content, acts) ==
  [DefState(content, acts) EXCEPT !.obj = TRUE]
DefRefThen(init, acts) ==
  [DefRef(init) EXCEPT !.acts = acts]
DefRefObj(content, acts) ==
  [DefRef(content) EXCEPT !.obj = TRUE, !.acts = acts]
\* Output accessors followed by calls on the returned handle.
DefOutputObjectThen(ns, key, val, acts) ==
  [BlankSite EXCEPT !.kind = "outputObject", !.ns = ns, !.key = key,
                    !.val = val, !.acts = acts]
DefOutputArrayThen(ns, key, val, acts) ==
  [BlankSite EXCEPT !.kind = "outputArray", !.ns = ns, !.key = key,
                    !.val = val, !.acts = acts]
DefOutputObject(ns, key, val) ==
  [BlankSite EXCEPT !.kind = "outputObject", !.ns = ns, !.key = key, !.val = val]
DefOutputArray(ns, key, val) ==
  [BlankSite EXCEPT !.kind = "outputArray", !.ns = ns, !.key = key, !.val = val]

\* A statement of the user function that throws an exception.
Throw == [BlankSite EXCEPT !.kind = "throw"]

\* A call of the registered extension capability `name`.
ExtCall(name) == [BlankSite EXCEPT !.kind = "ext", !.ext = name]

\* Effect callbacks: 1 returns nothing, 2 returns a cleanup function, 3 makes
\* the call of its site and returns nothing.
PlainEffect == 1
CleanupEffect == 2
ActEffect == 3
\* 4 returns a cleanup function only while the value it captured is below 1.
CleanupFirst == 4

\* typeof result === 'function', line 312.
ReturnsCleanup(cl) ==
  cl.code = CleanupEffect \/ (cl.code = CleanupFirst /\ cl.obs < 1)


\* The user functions the caller may pass to setFn.
CountTo(L) == << DefState(0, << SetRelWhile(L, 1) >>) >>

Increment == << DefState(0, << SetRel(1) >>) >>

IncrementFrom(L) ==
  << DefState(0, << SetRelFrom(L, 1) >>),
     DefEffect(PlainEffect, FALSE, << >>),
     DefOutputObject("ns", "k", Local(1)) >>

SetSame ==
  << DefState(0, << SetRel(0), FnAdd(0) >>),
     DefReducer("add", 0, << Dispatch(0) >>) >>

TwoStates ==
  << DefState(0, << SetRelWhile(1, 1) >>),
     DefState(5, << SetRelWhile(6, 2) >>) >>

TwiceDirect == << DefState(0, << SetRelWhile(1, 1), SetRelWhile(1, 2) >>) >>

TwiceFunctional ==
  << DefState(0, << FnAddWhile(1, 1), FnAddWhile(1, 1) >>),
     DefReducer("add", 0, << DispatchWhile(1, 1), DispatchWhile(1, 1) >>) >>

OutputFirst ==
  << DefOutputObject("ns", "k", Const(7)),
     DefState(0, << SetRelWhile(1, 1) >>) >>

Pipeline ==
  << DefInput,
     DefState(0, << SetRelWhile(2, 1) >>),
     DefRef(3),
     DefEffect(CleanupEffect, TRUE, << Local(2) >>),
     DefOutputArray("ns", "items", Local(1)),
     DefOutputArray("ns", "items", Local(2)) >>

\* An effect that sets state: if (count < 2) setCount(count + 1), deps [count].
EffectSets ==
  << DefState(0, << >>),
     DefEffectOn(ActEffect, TRUE, << Local(1) >>, 1, SetRelWhile(2, 1)) >>

\* An effect without deps that disables the first output entry.
EffectToggles ==
  << DefOutputObject("ns", "k", Const(7)),
     DefOutputArray("ns", "items", Const(1)),
     DefEffectOn(ActEffect, FALSE, << >>, 1, Disable) >>

\* Effects with and without deps, with and without cleanup functions.
TwoEffects ==
  << DefState(0, << SetRelWhile(1, 1) >>),
     DefEffect(CleanupEffect, FALSE, << >>),
     DefEffect(CleanupEffect, TRUE, << Local(1) >>),
     DefEffect(PlainEffect, TRUE, << >>) >>

\* Overwrite and append entries sharing a namespace, some disabled.
MixedOutputs ==
  << DefOutputObject("ns", "name", Const(7)),
     DefOutputArray("ns", "tags", Const(1)),
     DefOutputArrayThen("ns", "tags", Const(2), << Disable >>),
     DefOutputArray("ns", "tags", Const(3)),
     DefOutputObject("ns", "name", Const(8)),
     DefOutputObjectThen("gone", "k", Const(5), << Disable >>) >>

\* An append entry at a namespace/key an overwrite entry already wrote.
Collide ==
  << DefOutputObject("ns", "items", Const(7)),
     DefOutputArray("ns", "items", Const(1)),
     DefOutputObject("ns", "z", Const(0)),
     DefOutputArray("ns", "z", Const(1)) >>

Programs ==
  { CountTo(3), SetSame, TwoStates, TwiceDirect, TwiceFunctional, OutputFirst,
    Pipeline, EffectSets, EffectToggles, TwoEffects, MixedOutputs, Collide }

\* Effects with cleanup functions in a function that stops stabilizing once
\* its state reaches 1.
TeardownAfterError ==
  << DefState(0, << SetRelFrom(1, 1) >>),
     DefEffect(CleanupEffect, FALSE, << >>),
     DefEffect(PlainEffect, FALSE, << >>),
     DefEffect(CleanupEffect, TRUE, << >>) >>

\* Output calls inside conditionals on the input: if (input >= 1) ..., if
\* (input >= 0) ..., if (input < 1) ...
Conditional ==
  << DefInput,
     When(DefOutputObject("result", "data", Local(1)), "ge", 1, 1),
     When(DefOutputArray("result", "log", Local(1)), "ge", 1, 0),
     When(DefOutputObject("result", "message", Const(5)), "lt", 1, 1) >>

\* The input read after an output call.
OutputThenInput ==
  << DefOutputObject("ns", "k", Const(7)),
     DefInput >>

\* User functions that read the input.
\* An overwrite entry whose value is the state of the pass, and whose handle
\* is disabled and enabled again in every pass.
Reported ==
  << DefState(0, << SetRelWhile(2, 1) >>),
     DefOutputObjectThen("ns1", "counter", Local(1), << Disable, Enable >>) >>

InputPrograms == { Conditional, Pipeline, OutputThenInput, Reported }

\* A state counted to 2, a ref written in every pass, an effect on the state.
Recorded ==
  << DefState(0, << SetRelWhile(2, 1) >>),
     DefRefThen(0, << Assign(10) >>),
     DefEffect(PlainEffect, TRUE, << Local(1) >>) >>

\* A state holding an object that an effect mutates after the run.
ObjectState ==
  << DefStateObj(0, << >>),
     DefEffectOn(ActEffect, TRUE, << >>, 1, Mutate(999)) >>

\* A ref holding an object that is a dependency of the effect mutating it.
ObjectDep ==
  << DefRefObj(0, << >>),
     DefEffectOn(ActEffect, TRUE, << Local(1) >>, 1, Mutate(1)) >>

\* A ref written by an effect callback, outside every pass.
RefOutside ==
  << DefRef(3),
     DefEffectOn(ActEffect, FALSE, << >>, 1, Assign(1)),
     DefState(0, << SetRelWhile(1, 1) >>) >>

\* An output call followed by a ref written in every pass.
OutputThenRef ==
  << DefOutputObject("ns", "k", Const(7)),
     DefRefThen(0, << Assign(1) >>) >>

\* User functions that write refs and objects.
ObjectPrograms ==
  { Recorded, ObjectState, ObjectDep, RefOutside, OutputThenRef }

\* User functions whose runs approach or reach the iteration ceiling.
CeilingPrograms ==
  { CountTo(DefaultMaxIterations - 2), CountTo(DefaultMaxIterations - 1),
    Increment, IncrementFrom(1), TeardownAfterError }


\* An effect that sets the state to 1, in a function that stops stabilizing
\* once its state reaches 1: the run the effect starts fails.
NestedFails ==
  << DefState(0, << SetRelFrom(1, 1) >>),
     DefEffectOn(ActEffect, FALSE, << >>, 1, SetRelWhile(1, 1)),
     DefOutputObject("ns", "k", Local(1)) >>

\* User functions whose effects start nested runs, with and without error.
NestedPrograms == { EffectSets, NestedFails, IncrementFrom(1) }


\* An effect that returns a cleanup function and sets state:
\* if (count < 2) setCount(count + 1), deps [count].
Restabilizes ==
  << DefState(0, << >>),
     DefEffectOn(CleanupEffect, TRUE, << Local(1) >>, 1, SetRelWhile(2, 1)) >>

\* The same callback under a constant dependency list: deps [].
ConstDeps ==
  << DefState(0, << >>),
     DefEffectOn(ActEffect, TRUE, << >>, 1, SetRelWhile(1, 1)) >>

\* A value that every pass at 1 or above takes back down, as dependency.
ThereAndBack ==
  << DefState(0, << SetRelFrom(1, 0 - 1) >>),
     DefEffect(PlainEffect, TRUE, << Local(1) >>) >>

\* An effect whose callback returns a cleanup function only at count 0.
CleanupThenNone ==
  << DefState(0, << >>),
     DefEffectOn(CleanupFirst, TRUE, << Local(1) >>, 1, NoAct) >>

\* An entry disabled on the pass that sees 0 and on no later pass.
Sticky ==
  << DefState(0, << SetRelWhile(2, 1) >>),
     DefOutputObjectThen("ns", "k", Local(1),
                         << Act("disable", "lt", 1, FALSE, 0) >>) >>

\* A user function that throws once its state is 1 or above.
ThrowsLater ==
  << DefState(0, << >>),
     DefEffect(PlainEffect, TRUE, << Local(1) >>),
     When(Throw, "ge", 1, 1) >>

EffectPrograms ==
  { Restabilizes, ConstDeps, ThereAndBack, CleanupThenNone, Sticky,
    ThrowsLater }

\* ----------------------------------------------------------- extensions
\* The extensions a caller registers: whether the descriptor has an init
\* callback, and the capability calls its execute makes.
ExtNames ==
  { "defCounter", "defTracked", "defHelper", "defProcessor", "defUnused" }

Descriptor(name) ==
  CASE name = "defCounter" ->
         [hasInit |-> TRUE,
          execute |-> << DefState(0, << SetRelWhile(2, 1) >>) >>]
    [] name = "defTracked" ->
         [hasInit |-> TRUE, execute |-> << DefState(0, << >>) >>]
    [] name = "defHelper" ->
         [hasInit |-> FALSE,
          execute |-> << DefOutputArray("processed", "items", Const(1)) >>]
    [] name = "defProcessor" ->
         [hasInit |-> TRUE,
          execute |-> << ExtCall("defHelper"), ExtCall("defHelper") >>]
    [] OTHER ->
         [hasInit |-> TRUE, execute |-> << DefState(0, << >>) >>]

\* The sets of names passed to one extend() call.
ExtBundles ==
  { {"defCounter", "defUnused"}, {"defTracked"}, {"defHelper", "defProcessor"} }

\* User functions that call extension capabilities.
UsesCounter ==
  << ExtCall("defCounter"), DefState(3, << SetRelWhile(4, 1) >>) >>

UsesTracked ==
  << DefState(5, << >>), ExtCall("defTracked"),
     DefEffectOn(ActEffect, TRUE, << Local(1) >>, 1, SetRelWhile(6, 1)) >>

UsesProcessor ==
  << ExtCall("defProcessor"), ExtCall("defHelper"),
     DefOutputObject("processed", "done", Const(1)) >>

ExtPrograms == { UsesCounter, UsesTracked, UsesProcessor }

\* The extension names a function calls.
Needs(fn) == {fn[i].ext : i \in {j \in 1..Len(fn) : fn[j].kind = "ext"}}


\* ------------------------------------------------------------------ state
VARIABLES
  heap,              \* hook objects: heap[id] is the object with that id
  hooks,             \* this.hooks: the array of hook object ids
  currentHookIndex,  \* this.currentHookIndex
  isRunning,         \* this.isRunning
  pendingUpdates,    \* this.pendingUpdates: closures [hook id, newValue]
  maxIterations,     \* this.maxIterations
  snapshots,         \* this.snapshots
  inputValue,        \* this.inputValue
  outputCallback,    \* whether this.outputCallback is set
  renderFn,          \* this.renderFn (<< >> while unset)
  stack,             \* the call stack: run / user function / runEffects frames
  exported,          \* hook ids whose setter or dispatcher the caller holds
  runs,              \* runs started by public calls so far (also the clock)
  passes,            \* passes executed so far
  outcome,           \* how the last public call ended
  fx,                \* callbacks invoked since the last public call began
  lastOutput,        \* the mapping last handed to the output callback
  call,              \* the last public call made
  ended,             \* how the run that ended last went
  applied,           \* per hook object, the last update written to it
  slotOf,            \* per call site, the hook object it first addressed
  extensions,        \* per extension name: registered, initialized
  extLog,            \* init and execute invocations of extensions, in order
  effectLog          \* cleanup functions returned, effects invoked so far

vars ==
  << heap, hooks, currentHookIndex, isRunning, pendingUpdates, maxIterations,
     snapshots, inputValue, outputCallback, renderFn, stack, exported, runs,
     passes, outcome, fx, lastOutput, call, ended, applied, slotOf,
     extensions, extLog, effectLog >>

registry == << extensions, extLog >>

engine ==
  << heap, hooks, currentHookIndex, isRunning, pendingUpdates, maxIterations,
     snapshots, inputValue, outputCallback, renderFn >>

NoFx == [effects |-> 0, cleanups |-> 0, outputs |-> 0, log |-> << >>]

\* An entry of the log of fx: what was invoked (or, for "stable", that a run
\* passed its ceiling check) and for which hook object.
Event(ev, id) == [ev |-> ev, id |-> id]

\* effectLog.tokens: the cleanup functions effect callbacks returned so far,
\* in the order they were returned, each with the hook object whose callback
\* returned it and whether it was invoked never, once or again.
\* effectLog.ran: per effect hook object whose callback was invoked, the
\* dependency list the hook held at the last invocation.
\* effectLog.settled: whether the last update() was called on an instance
\* whose previous run had stabilized and returned.
NoEffectLog == [tokens |-> << >>, ran |-> << >>, settled |-> FALSE]

\* The cleanup function stored in a hook object is the one its callback
\* returned last (line 313); 0 if it never returned one.
HeldToken(tokens, id) ==
  LET mine == {t \in 1..Len(tokens) : tokens[t].hook = id}
  IN  IF mine = {} THEN 0 ELSE CHOOSE t \in mine : \A u \in mine : u <= t

Again(calls) == IF calls = "never" THEN "once" ELSE "again"

\* The cleanup functions stored in the hook objects `ids` are invoked.
Invoked(log, ids) ==
  [log EXCEPT !.tokens =
     [t \in 1..Len(log.tokens) |->
        IF \E id \in ids : HeldToken(log.tokens, id) = t
          THEN [log.tokens[t] EXCEPT !.calls = Again(@)]
          ELSE log.tokens[t]]]

\* The callback of hook object id returned a cleanup function.
CleanupReturned(log, id) ==
  [log EXCEPT !.tokens = Append(@, [hook |-> id, calls |-> "never"])]

\* The callback of hook object id is invoked while the hook holds `deps`.
Ran(log, id, hasDeps, deps) ==
  [log EXCEPT !.ran =
     IF \E k \in 1..Len(log.ran) : log.ran[k].hook = id
       THEN [k \in 1..Len(log.ran) |->
               IF log.ran[k].hook = id
                 THEN [hook |-> id, hasDeps |-> hasDeps, deps |-> deps]
                 ELSE log.ran[k]]
       ELSE Append(log.ran, [hook |-> id, hasDeps |-> hasDeps, deps |-> deps])]

NoOutput == << >>

NoRun ==
  [any |-> FALSE, run |-> 0, iterations |-> 0, queued |-> 0, threw |-> FALSE]

NoUpdate == [any |-> FALSE, value |-> undefined]

\* --------------------------------------------------------------- frames
BlankFrame ==
  [proc |-> "none", pc |-> "none", iterations |-> 0, hasChanges |-> FALSE,
   queued |-> 0, pos |-> 0, act |-> 0, locals |-> << >>, cells |-> << >>,
   idx |-> 0, arr |-> << >>, result |-> 0, entry |-> << >>]

RECURSIVE Fill(_, _)
Fill(n, v) == IF n = 0 THEN << >> ELSE Append(Fill(n - 1, v), v)

RunFrame ==
  [BlankFrame EXCEPT !.proc = "run", !.pc = "while", !.iterations = 0,
                     !.hasChanges = TRUE]

FnFrame(n, h) ==
  [BlankFrame EXCEPT !.proc = "fn", !.pc = "body", !.pos = 1, !.act = 0,
                     !.entry = h,
                     !.locals = Fill(n, undefined),
                     !.cells = Fill(n, 0)]

EffectsFrame(arr) ==
  [BlankFrame EXCEPT !.proc = "runEffects", !.pc = "visit", !.idx = 1,
                     !.arr = arr]

Top == stack[Len(stack)]
Below == SubSeq(stack, 1, Len(stack) - 1)
AtTop(proc, pc) == Len(stack) > 0 /\ Top.proc = proc /\ Top.pc = pc
Idle == stack = << >>

Init ==
  /\ heap = << >>
  /\ hooks = << >>
  /\ currentHookIndex = 0
  /\ isRunning = FALSE
  /\ pendingUpdates = << >>
  /\ maxIterations = DefaultMaxIterations
  /\ snapshots = << >>
  /\ inputValue = undefined
  /\ outputCallback = FALSE
  /\ renderFn = << >>
  /\ stack = << >>
  /\ exported = {}
  /\ runs = 0
  /\ passes = 0
  /\ outcome = "none"
  /\ fx = NoFx
  /\ lastOutput = NoOutput
  /\ call = "none"
  /\ ended = NoRun
  /\ applied = << >>
  /\ slotOf = << >>
  /\ extensions = [n \in ExtNames |-> [registered |-> FALSE, initialized |-> FALSE]]
  /\ extLog = << >>
  /\ effectLog = NoEffectLog


\* ------------------------------------------------------------- accessors
\* The slot a capability call addresses: `hookIndex = this.currentHookIndex++`,
\* a new object pushed when hookIndex >= this.hooks.length, else the object
\* already at that position.  Each accessor yields the heap and array after
\* the call, the object it addressed and the value it returns.
IsNewSlot(hs, hookIndex) == hookIndex >= Len(hs)

SlotId(h, hs, hookIndex) ==
  IF IsNewSlot(hs, hookIndex) THEN Len(h) + 1 ELSE hs[hookIndex + 1]

PushIfNew(h, hs, hookIndex, fresh) ==
  IF IsNewSlot(hs, hookIndex)
    THEN [heap |-> Append(h, fresh), hooks |-> Append(hs, Len(h) + 1)]
    ELSE [heap |-> h, hooks |-> hs]

Eval(e, locals) == IF e.loc = 0 THEN e.c ELSE locals[e.loc]

RECURSIVE EvalAll(_, _)
EvalAll(es, locals) ==
  IF es = << >> THEN << >>
  ELSE << Eval(Head(es), locals) >> \o EvalAll(Tail(es), locals)

defState(h, hs, hookIndex, initialValue) ==
  LET p  == PushIfNew(h, hs, hookIndex, StateHook(initialValue))
      id == SlotId(h, hs, hookIndex)
  IN  [heap |-> p.heap, hooks |-> p.hooks, id |-> id, ret |-> p.heap[id].value]

defReducer(h, hs, hookIndex, reducer, initialState) ==
  LET p  == PushIfNew(h, hs, hookIndex, ReducerHook(reducer, initialState))
      id == SlotId(h, hs, hookIndex)
  IN  [heap |-> p.heap, hooks |-> p.hooks, id |-> id, ret |-> p.heap[id].value]

defRef(h, hs, hookIndex, initialValue) ==
  LET p  == PushIfNew(h, hs, hookIndex, RefHook(initialValue))
      id == SlotId(h, hs, hookIndex)
  IN  [heap |-> p.heap, hooks |-> p.hooks, id |-> id, ret |-> p.heap[id].current]

\* Variant: only the lengths of the lists are compared.
depsChangedByLength(hasDeps, deps, hook) ==
  \/ ~hasDeps
  \/ ~hook.hasDeps
  \/ Len(deps) # Len(hook.deps)

depsChanged(hasDeps, deps, hook) ==
  \/ ~hasDeps
  \/ ~hook.hasDeps
  \/ Len(deps) # Len(hook.deps)
  \/ \E i \in 1..Len(deps) : deps[i] # hook.deps[i]

\* Variant: every visit marks the effect for re-execution.
defEffectResets(h, hs, hookIndex, callback, hasDeps, deps) ==
  LET id == SlotId(h, hs, hookIndex)
  IN  IF IsNewSlot(hs, hookIndex)
        THEN LET p == PushIfNew(h, hs, hookIndex,
                                EffectHook(callback, hasDeps, deps))
             IN  [heap |-> p.heap, hooks |-> p.hooks, id |-> id,
                  ret |-> undefined]
        ELSE [heap |-> [h EXCEPT ![id].callback = callback,
                                 ![id].hasDeps = hasDeps,
                                 ![id].deps = IF hasDeps THEN deps ELSE << >>,
                                 ![id].hasRun = FALSE],
              hooks |-> hs, id |-> id, ret |-> undefined]

defEffect(h, hs, hookIndex, callback, hasDeps, deps) ==
  LET id == SlotId(h, hs, hookIndex)
  IN  IF IsNewSlot(hs, hookIndex)
        THEN LET p == PushIfNew(h, hs, hookIndex,
                                EffectHook(callback, hasDeps, deps))
             IN  [heap |-> p.heap, hooks |-> p.hooks, id |-> id,
                  ret |-> undefined]
        ELSE LET withCb == [h[id] EXCEPT !.callback = callback]
                 after  == IF depsChanged(hasDeps, deps, withCb)
                             THEN [withCb EXCEPT !.hasDeps = hasDeps,
                                                 !.deps = IF hasDeps THEN deps ELSE << >>,
                                                 !.hasRun = FALSE]
                             ELSE withCb
             IN  [heap |-> [h EXCEPT ![id] = after], hooks |-> hs, id |-> id,
                  ret |-> undefined]

\* Variant: the slot keeps the value it was created with.
defInputOnce(h, hs, hookIndex, input) ==
  LET p  == PushIfNew(h, hs, hookIndex, InputHook(input))
      id == SlotId(h, hs, hookIndex)
  IN  [heap |-> p.heap, hooks |-> p.hooks, id |-> id, ret |-> p.heap[id].value]

defInput(h, hs, hookIndex, input) ==
  LET p  == PushIfNew(h, hs, hookIndex, InputHook(input))
      id == SlotId(h, hs, hookIndex)
      h2 == [p.heap EXCEPT ![id].value = input]
  IN  [heap |-> h2, hooks |-> p.hooks, id |-> id, ret |-> h2[id].value]

\* Variant: namespace, key and value are written only when the slot is
\* created.
defOutputOnce(h, hs, hookIndex, type, namespace, key, value) ==
  LET p  == PushIfNew(h, hs, hookIndex, OutputHook(type, namespace, key, value))
      id == SlotId(h, hs, hookIndex)
  IN  [heap |-> p.heap, hooks |-> p.hooks, id |-> id, ret |-> p.heap[id].value]

\* Variant: every visit of an existing slot also switches it back on.
defOutputEnables(h, hs, hookIndex, type, namespace, key, value) ==
  LET p  == PushIfNew(h, hs, hookIndex, OutputHook(type, namespace, key, value))
      id == SlotId(h, hs, hookIndex)
      h2 == [p.heap EXCEPT ![id].namespace = namespace, ![id].key = key,
                           ![id].value = value, ![id].enabled = TRUE]
  IN  [heap |-> h2, hooks |-> p.hooks, id |-> id, ret |-> h2[id].value]

defOutput(h, hs, hookIndex, type, namespace, key, value) ==
  LET p  == PushIfNew(h, hs, hookIndex, OutputHook(type, namespace, key, value))
      id == SlotId(h, hs, hookIndex)
      h2 == [p.heap EXCEPT ![id].namespace = namespace, ![id].key = key,
                           ![id].value = value]
  IN  [heap |-> h2, hooks |-> p.hooks, id |-> id, ret |-> h2[id].value]

\* The capability call made at a call site of the user function.
Captured(site, locals, cells) ==
  IF site.target = 0 THEN Closure(site.cb, NoAct, 0, 0)
  ELSE Closure(site.cb, site.eact, cells[site.target], locals[site.target])

\* The initial value passed at a site: for an object literal, the reference
\* to the object, which is kept only when the call stores it in a new slot.
InitialValue(h, site) ==
  IF site.obj THEN ObjRef(Len(h) + 2) ELSE site.init

KeepObject(r, h, hs, hookIndex, site) ==
  IF site.obj /\ IsNewSlot(hs, hookIndex)
    THEN [r EXCEPT !.heap = Append(@, PlainObject(site.init))]
    ELSE r

Accessor(h, hs, hookIndex, site, locals, cells, input) ==
  CASE site.kind = "state" ->
         KeepObject(defState(h, hs, hookIndex, InitialValue(h, site)),
                    h, hs, hookIndex, site)
    [] site.kind = "reducer" ->
         defReducer(h, hs, hookIndex, site.reducer, site.init)
    [] site.kind = "ref" ->
         KeepObject(defRef(h, hs, hookIndex, InitialValue(h, site)),
                    h, hs, hookIndex, site)
    [] site.kind = "effect" ->
         defEffect(h, hs, hookIndex, Captured(site, locals, cells),
                   site.hasDeps, EvalAll(site.deps, locals))
    [] site.kind = "input" -> defInput(h, hs, hookIndex, input)
    [] OTHER ->
         defOutput(h, hs, hookIndex, site.kind, site.ns, site.key,
                   Eval(site.val, locals))

\* The value a setter or dispatcher call computes (lines 200-202, 239).
NewValue(a, obs, hook) ==
  CASE a.op = "set" -> IF a.rel THEN obs + a.arg ELSE a.arg
    [] a.op = "setFn" -> hook.value + a.arg
    [] OTHER -> ApplyReducer(hook.reducer, hook.value, a.arg)

\* Variant: every call counts as a change.
IsChangeAlways(newValue, hook) == TRUE

\* Whether setState / dispatch treats newValue as a change (lines 204, 241).
IsChange(newValue, hook) == newValue # hook.value


\* ------------------------------------------------- queue, snapshot, output
\* Variant: each closure applies its change on top of the value the hook
\* holds when the closure runs (h0: the heap before the batch).
RECURSIVE ApplyComposing(_, _, _)
ApplyComposing(h, q, h0) ==
  IF q = << >> THEN h
  ELSE ApplyComposing(
         [h EXCEPT ![Head(q).id].value =
            @ + (Head(q).newValue - h0[Head(q).id].value)], Tail(q), h0)

ApplyUpdatesComposing(h, q) == ApplyComposing(h, q, h)

\* Variant: the closures run in reverse enqueue order.
RECURSIVE ApplyUpdatesReversed(_, _)
ApplyUpdatesReversed(h, q) ==
  IF q = << >> THEN h
  ELSE [ApplyUpdatesReversed(h, Tail(q)) EXCEPT
          ![Head(q).id].value = Head(q).newValue]

\* this.pendingUpdates.forEach(update => update()): each closure writes the
\* value computed at enqueue time into the hook object it captured.
RECURSIVE ApplyUpdates(_, _)
ApplyUpdates(h, q) ==
  IF q = << >> THEN h
  ELSE ApplyUpdates([h EXCEPT ![Head(q).id].value = Head(q).newValue], Tail(q))

\* Primitive values are returned as they are (typeof value !== 'object');
\* of a plain object a copy is made, property by property (lines 556-563).
\* The copy is a new object that nothing but the snapshot refers to: it is
\* written as the frozen value of its content, an integer above every
\* primitive.
FrozenBase == 2 * DefaultMaxIterations

Frozen(content) == FrozenBase + content

RECURSIVE deepCopy(_, _)
deepCopy(h, value) ==
  IF IsRef(value) THEN Frozen(deepCopy(h, h[ObjId(value)].value))
  ELSE value

\* The deps of an effect are copied by [...hook.deps]: a new array of the
\* same elements, references included (line 506).
serializeHook(h, hook, index) ==
  CASE hook.type \in {"state", "reducer", "input"} ->
         [type |-> hook.type, index |-> index, value |-> deepCopy(h, hook.value)]
    [] hook.type = "ref" ->
         [type |-> hook.type, index |-> index,
          current |-> deepCopy(h, hook.current)]
    [] hook.type = "effect" ->
         [type |-> hook.type, index |-> index, hasDeps |-> hook.hasDeps,
          deps |-> hook.deps, hasRun |-> hook.hasRun]
    [] OTHER ->
         [type |-> hook.type, index |-> index, namespace |-> hook.namespace,
          key |-> hook.key, value |-> deepCopy(h, hook.value),
          enabled |-> hook.enabled]

\* this.hooks.map((hook, index) => this.serializeHook(hook, index)) from
\* position i on.
RECURSIVE SerializeFrom(_, _, _)
SerializeFrom(h, hs, i) ==
  IF i > Len(hs) THEN << >>
  ELSE << serializeHook(h, h[hs[i]], i - 1) >> \o SerializeFrom(h, hs, i + 1)

captureSnapshot(h, hs, iteration, now) ==
  [iteration |-> iteration, timestamp |-> now,
   hooks |-> SerializeFrom(h, hs, 1)]

\* getSnapshots() returns a new array of the records of the log (567-569).
getSnapshots(log) == [i \in 1..Len(log) |-> log[i]]

\* What getLastSnapshot() returns for an empty log.
NoSnapshot == [iteration |-> undefined, timestamp |-> undefined, hooks |-> << >>]

\* Variant: the oldest record is returned.
getFirstSnapshot(log) ==
  IF Len(log) > 0 THEN log[1] ELSE NoSnapshot

\* getLastSnapshot(), lines 572-576.
getLastSnapshot(log) ==
  IF Len(log) > 0 THEN log[Len(log)] ELSE NoSnapshot

\* The output mapping: a function on the <<namespace, key>> pairs present.
Falsy(v) == v = 0 \/ v = undefined

Put(output, k, e) ==
  [x \in DOMAIN output \cup {k} |-> IF x = k THEN e ELSE output[x]]

Scalar(v) == [isArray |-> FALSE, value |-> v, items |-> << >>]
Array(items) == [isArray |-> TRUE, value |-> undefined, items |-> items]

FoldOutput(output, hook) ==
  LET k == << hook.namespace, hook.key >>
  IN  CASE hook.type = "outputObject" /\ hook.enabled ->
             Put(output, k, Scalar(hook.value))
        [] hook.type = "outputArray" /\ hook.enabled ->
             LET cur == IF k \in DOMAIN output
                             /\ (output[k].isArray \/ ~Falsy(output[k].value))
                          THEN output[k] ELSE Array(<< >>)
             IN  IF cur.isArray
                   THEN Put(output, k, Array(Append(cur.items, hook.value)))
                   ELSE Put(output, k, cur)
        [] OTHER -> output

RECURSIVE BuildFrom(_, _, _, _)
BuildFrom(h, hs, i, output) ==
  IF i > Len(hs) THEN output
  ELSE BuildFrom(h, hs, i + 1, FoldOutput(output, h[hs[i]]))

buildOutput(h, hs) == BuildFrom(h, hs, 1, << >>)

RECURSIVE FilterHooks(_, _)
FilterHooks(h, hs) ==
  IF hs = << >> THEN << >>
  ELSE IF h[Head(hs)].type \in {"outputObject", "outputArray"}
         THEN FilterHooks(h, Tail(hs))
         ELSE << Head(hs) >> \o FilterHooks(h, Tail(hs))

\* Variant: the output hooks are left in the array.
clearNoHook(h, hs) == hs

\* Variant: every hook is discarded, not only the output hooks.
clearEveryHook(h, hs) == << >>

clearOutputHooks(h, hs) == FilterHooks(h, hs)


\* ---------------------------------------------------------- control stack
ReplaceTop(f) == Append(Below, f)

\* this.run() called from the frames `st`: it returns at once while no user
\* function is set (lines 132-134).
CallRun(st) == IF renderFn = << >> THEN st ELSE Append(st, RunFrame)

\* A public call may start a run while the caller's budget lasts.
CanStart == runs < MaxRuns /\ passes < PassBudget

Returned(st) == IF st = << >> THEN "returned" ELSE "running"

\* The last run the caller started passed its ceiling check, ran its effects
\* and returned, and nothing is left to do: the loop is not executing, every
\* effect has run and no update is queued.
Stabilized ==
  /\ stack = << >> /\ outcome = "returned" /\ ~isRunning
  /\ ended.any /\ ~ended.threw /\ ended.run = runs
  /\ pendingUpdates = << >>
  /\ \A i \in 1..Len(hooks) :
       heap[hooks[i]].type = "effect" => heap[hooks[i]].hasRun

\* ------------------------------------------------------------ public calls
\* setFn(renderFn), lines 106-129.  The caller supplies its function once.
SetFn(f) ==
  /\ Idle /\ renderFn = << >> /\ CanStart
  /\ renderFn' = f
  /\ stack' = << RunFrame >>
  /\ runs' = runs + 1
  /\ outcome' = "running"
  /\ fx' = NoFx
  /\ UNCHANGED << heap, hooks, currentHookIndex, isRunning, pendingUpdates,
                  maxIterations, snapshots, inputValue, outputCallback,
                  exported, passes, lastOutput, ended, applied >>
  /\ call' = "setFn"
  /\ slotOf' = Fill(Len(f), 0)
  /\ UNCHANGED registry
  /\ UNCHANGED effectLog

\* update(), lines 442-444.
Update ==
  /\ Idle
  /\ renderFn # << >> => CanStart
  /\ stack' = CallRun(stack)
  /\ runs' = IF renderFn = << >> THEN runs ELSE runs + 1
  /\ outcome' = Returned(stack')
  /\ fx' = NoFx
  /\ call' = "update"
  /\ UNCHANGED << engine, exported, passes, lastOutput, ended, applied, slotOf >>
  /\ UNCHANGED registry
  /\ effectLog' = [effectLog EXCEPT !.settled = Stabilized]

\* setInput(input), lines 456-462.
SetInput(input) ==
  /\ Idle
  /\ renderFn # << >> => CanStart
  /\ inputValue' = input
  /\ hooks' = clearOutputHooks(heap, hooks)
  /\ stack' = CallRun(stack)
  /\ runs' = IF renderFn = << >> THEN runs ELSE runs + 1
  /\ outcome' = Returned(stack')
  /\ fx' = NoFx
  /\ UNCHANGED << heap, currentHookIndex, isRunning, pendingUpdates,
                  maxIterations, snapshots, outputCallback, renderFn,
                  exported, passes, lastOutput, ended, applied >>
  /\ call' = "setInput"
  /\ slotOf' = [i \in 1..Len(slotOf) |->
                  IF renderFn[i].kind \in {"outputObject", "outputArray"}
                    THEN 0 ELSE slotOf[i]]
  /\ UNCHANGED registry
  /\ UNCHANGED effectLog

\* Variant: registering the callback hands it the current mapping at once.
OnOutputReplays ==
  /\ Idle
  /\ outputCallback' = TRUE
  /\ outcome' = "returned"
  /\ fx' = [NoFx EXCEPT !.outputs = 1, !.log = << Event("output", 0) >>]
  /\ lastOutput' = buildOutput(heap, hooks)
  /\ UNCHANGED << heap, hooks, currentHookIndex, isRunning, pendingUpdates,
                  maxIterations, snapshots, inputValue, renderFn, stack,
                  exported, runs, passes, ended, applied, slotOf >>
  /\ call' = "onOutput"
  /\ UNCHANGED registry
  /\ UNCHANGED effectLog

\* extend(descriptors): the names are added to the registry.
Extend(names) ==
  /\ Idle
  /\ \A n \in names : ~extensions[n].registered
  /\ extensions' = [n \in ExtNames |->
                      IF n \in names
                        THEN [registered |-> TRUE, initialized |-> FALSE]
                        ELSE extensions[n]]
  /\ outcome' = "returned"
  /\ fx' = NoFx
  /\ call' = "extend"
  /\ UNCHANGED << engine, stack, exported, runs, passes, lastOutput, ended,
                  applied, slotOf, extLog >>
  /\ UNCHANGED effectLog

\* onOutput(callback), lines 465-467.
OnOutput ==
  /\ Idle
  /\ outputCallback' = TRUE
  /\ outcome' = "returned"
  /\ fx' = NoFx
  /\ UNCHANGED << heap, hooks, currentHookIndex, isRunning, pendingUpdates,
                  maxIterations, snapshots, inputValue, renderFn, stack,
                  exported, runs, passes, lastOutput, ended, applied, slotOf >>
  /\ call' = "onOutput"
  /\ UNCHANGED registry
  /\ UNCHANGED effectLog

\* cleanup(), lines 447-453.
StoredCleanups(h, hs) ==
  Cardinality({i \in 1..Len(hs) :
                 h[hs[i]].type = "effect" /\ h[hs[i]].cleanup # NoCleanup})

\* Variant: only the cleanups of effects whose hasRun is set are invoked.
RECURSIVE CleanupCallsOfRun(_, _, _)
CleanupCallsOfRun(h, hs, i) ==
  IF i > Len(hs) THEN << >>
  ELSE (IF h[hs[i]].type = "effect" /\ h[hs[i]].cleanup # NoCleanup
             /\ h[hs[i]].hasRun
          THEN << Event("cleanup", hs[i]) >> ELSE << >>)
       \o CleanupCallsOfRun(h, hs, i + 1)

RECURSIVE CleanupCalls(_, _, _)
CleanupCalls(h, hs, i) ==
  IF i > Len(hs) THEN << >>
  ELSE (IF h[hs[i]].type = "effect" /\ h[hs[i]].cleanup # NoCleanup
          THEN << Event("cleanup", hs[i]) >> ELSE << >>)
       \o CleanupCalls(h, hs, i + 1)

Cleanup ==
  /\ Idle
  /\ fx' = [NoFx EXCEPT !.cleanups = StoredCleanups(heap, hooks),
                        !.log = CleanupCalls(heap, hooks, 1)]
  /\ effectLog' =
       Invoked(effectLog,
               {e.id : e \in {CleanupCalls(heap, hooks, 1)[k] :
                                k \in 1..Len(CleanupCalls(heap, hooks, 1))}})
  /\ outcome' = "returned"
  /\ call' = "cleanup"
  /\ UNCHANGED << engine, stack, exported, runs, passes, lastOutput, ended,
                  applied, slotOf >>
  /\ UNCHANGED registry

\* clearSnapshots(), lines 579-581.
ClearSnapshots ==
  /\ Idle
  /\ snapshots' = << >>
  /\ outcome' = "returned"
  /\ fx' = NoFx
  /\ UNCHANGED << heap, hooks, currentHookIndex, isRunning, pendingUpdates,
                  maxIterations, inputValue, outputCallback, renderFn, stack,
                  exported, runs, passes, lastOutput, ended, applied, slotOf >>
  /\ call' = "clearSnapshots"
  /\ UNCHANGED registry
  /\ UNCHANGED effectLog

\* A pass context: the fields a capability call or a setter call reads and
\* writes, the user function's frame f, and whether this.run() was called.
Ctx(f) ==
  [heap |-> heap, hooks |-> hooks, currentHookIndex |-> currentHookIndex,
   pendingUpdates |-> pendingUpdates, isRunning |-> isRunning,
   exported |-> exported, applied |-> applied, slotOf |-> slotOf,
   extensions |-> extensions, extLog |-> extLog,
   f |-> f, rerun |-> FALSE, threw |-> FALSE]

\* Variant: outside a pass the setter writes the hook and starts no run.
setStateNoRerun(c, id, newValue) ==
  IF ~IsChange(newValue, c.heap[id]) THEN c
  ELSE IF c.isRunning
    THEN [c EXCEPT !.pendingUpdates =
                     Append(@, [id |-> id, newValue |-> newValue])]
    ELSE [c EXCEPT !.heap[id].value = newValue,
                   !.applied[id] = [any |-> TRUE, value |-> newValue]]

\* Variant: the setter never queues; it writes the hook and re-enters run()
\* also while a pass is executing.
setStateReenters(c, id, newValue) ==
  IF ~IsChange(newValue, c.heap[id]) THEN c
  ELSE [c EXCEPT !.heap[id].value = newValue,
                 !.applied[id] = [any |-> TRUE, value |-> newValue],
                 !.rerun = TRUE]

\* Variant: the setter writes the hook at once even while a pass executes.
setStateUnguarded(c, id, newValue) ==
  IF ~IsChange(newValue, c.heap[id]) THEN c
  ELSE [c EXCEPT !.heap[id].value = newValue,
                 !.applied[id] = [any |-> TRUE, value |-> newValue],
                 !.rerun = ~c.isRunning]

\* setState(action) / dispatch(action), lines 204-215 and 241-252, on hook
\* object id with the computed newValue: queued while a pass is executing,
\* else written at once followed by this.run().
setState(c, id, newValue) ==
  IF ~IsChange(newValue, c.heap[id]) THEN c
  ELSE IF c.isRunning
    THEN [c EXCEPT !.pendingUpdates =
                     Append(@, [id |-> id, newValue |-> newValue])]
    ELSE [c EXCEPT !.heap[id].value = newValue,
                   !.applied[id] = [any |-> TRUE, value |-> newValue],
                   !.rerun = TRUE]

\* enable() / disable() of an output handle, lines 367-368 and 403-404, on
\* the hook object the handle captured.
setEnabled(c, id, on) == [c EXCEPT !.heap[id].enabled = on]

\* ref.current = v on the cell the Ref accessor returned (the hook object
\* itself, line 269), and obj.value = v on a plain object.
setCurrent(c, id, v) == [c EXCEPT !.heap[id].current = v]

setProperty(c, ref, v) == [c EXCEPT !.heap[ObjId(ref)].value = v]

\* A call the user function or an effect callback makes on what an accessor
\* returned: a handle method, a write to a cell or an object, or a setter /
\* dispatcher.  (obs is the value read in the pass that made the closure.)
Invoke(c, a, id, obs) ==
  CASE a.op \in {"enable", "disable"} -> setEnabled(c, id, a.op = "enable")
    [] a.op = "assign" -> setCurrent(c, id, obs + a.arg)
    [] a.op = "mutate" ->
         setProperty(c, obs, c.heap[ObjId(obs)].value + a.arg)
    [] OTHER -> setState(c, id, NewValue(a, obs, c.heap[id]))

\* The caller invokes a setter or dispatcher it was handed during a pass.
ExtActs(kind) ==
  IF kind = "state"
    THEN {SetTo(v) : v \in ExtValues} \cup {FnAdd(1)}
    ELSE {Dispatch(v) : v \in ExtValues}

ExternalSetter(e, a) ==
  /\ Idle
  /\ LET c == setState(Ctx(BlankFrame), e.id,
                       NewValue(a, undefined, heap[e.id]))
     IN  /\ c.rerun => CanStart
         /\ Len(c.pendingUpdates) > Len(pendingUpdates) =>
               Len(pendingUpdates) < MaxQueued
         /\ heap' = c.heap
         /\ pendingUpdates' = c.pendingUpdates
         /\ applied' = c.applied
         /\ stack' = IF c.rerun THEN CallRun(stack) ELSE stack
         /\ runs' = IF c.rerun THEN runs + 1 ELSE runs
  /\ outcome' = Returned(stack')
  /\ fx' = NoFx
  /\ call' = IF runs' = runs THEN "setterSame" ELSE "setter"
  /\ UNCHANGED << hooks, currentHookIndex, isRunning, maxIterations, snapshots,
                  inputValue, outputCallback, renderFn, exported, passes,
                  lastOutput, ended, slotOf >>
  /\ UNCHANGED registry
  /\ UNCHANGED effectLog

\* ------------------------------------------------------ the user function
\* One capability call of the pass (lines 186-197, 221-236, 258-286, 321-335,
\* 337-362, 373-398) at the frame's call site.
RECURSIVE FnRun(_, _, _)
RECURSIVE FnCallAccessor(_, _, _)

\* The context in which execute runs: its own locals, the engine's fields as
\* they are.
ExecuteFrame(c, body) ==
  [c EXCEPT !.f = FnFrame(Len(body), c.heap), !.slotOf = Fill(Len(body), 0)]

\* Back in the caller: the call site receives what execute returned (the
\* result of its last capability call).
ExecuteReturn(c, r, body) ==
  [r EXCEPT
     !.slotOf = c.slotOf,
     !.f = [c.f EXCEPT
              !.locals[c.f.pos] =
                 IF body = << >> THEN undefined ELSE r.f.locals[Len(body)],
              !.cells[c.f.pos] =
                 IF body = << >> THEN 0 ELSE r.f.cells[Len(body)],
              !.pos = @ + 1]]

\* Variant: init is invoked at every invocation of the capability.
callExtensionInitAlways(c, name, input) ==
  LET d  == Descriptor(name)
      c1 == [c EXCEPT
               !.extensions[name].initialized = TRUE,
               !.extLog = @ \o (IF d.hasInit
                                  THEN << Event("init", name) >> ELSE << >>)
                          \o << Event("execute", name) >>]
  IN  CHOOSE x \in { ExecuteReturn(c, r, d.execute) :
                       r \in { FnRun(ExecuteFrame(c1, d.execute), d.execute,
                                     input) } } : TRUE

\* Variant: the capability calls of execute count positions from 0 again.
callExtensionOwnCounter(c, name, input) ==
  LET d     == Descriptor(name)
      first == ~c.extensions[name].initialized
      c1    == [c EXCEPT
                  !.extensions[name].initialized = TRUE,
                  !.currentHookIndex = 0,
                  !.extLog = @ \o (IF first /\ d.hasInit
                                     THEN << Event("init", name) >> ELSE << >>)
                             \o << Event("execute", name) >>]
  IN  CHOOSE x \in { ExecuteReturn(c, r, d.execute) :
                       r \in { FnRun(ExecuteFrame(c1, d.execute), d.execute,
                                     input) } } : TRUE

\* A call of an extension capability: at the first invocation of the name
\* its init callback, if any, is invoked; then execute runs with the whole
\* capability set, its capability calls taking positions from the counter
\* of the pass.
callExtension(c, name, input) ==
  LET d     == Descriptor(name)
      first == ~c.extensions[name].initialized
      c1    == [c EXCEPT
                  !.extensions[name].initialized = TRUE,
                  !.extLog = @ \o (IF first /\ d.hasInit
                                     THEN << Event("init", name) >> ELSE << >>)
                             \o << Event("execute", name) >>]
  IN  CHOOSE x \in { ExecuteReturn(c, r, d.execute) :
                       r \in { FnRun(ExecuteFrame(c1, d.execute), d.execute,
                                     input) } } : TRUE

FnCallAccessor(c, fn, input) ==
  LET pos  == c.f.pos
      site == fn[pos]
      r    == Accessor(c.heap, c.hooks, c.currentHookIndex, site, c.f.locals,
                       c.f.cells, input)
      done == site.acts = << >>
  IN  IF ~SiteCalled(site, c.f.locals)
        THEN [c EXCEPT !.f = [@ EXCEPT !.pos = @ + 1]]
      ELSE IF site.kind = "throw" THEN [c EXCEPT !.threw = TRUE]
      ELSE IF site.kind = "ext" THEN callExtension(c, site.ext, input)
      ELSE
      [c EXCEPT
         !.heap = r.heap,
         !.hooks = r.hooks,
         !.currentHookIndex = @ + 1,
         !.exported = IF site.kind \in {"state", "reducer"} /\ ~site.obj
                        THEN @ \cup {[id |-> r.id, kind |-> site.kind]} ELSE @,
         !.applied = @ \o Fill(Len(r.heap) - Len(c.heap), NoUpdate),
         !.slotOf = IF @[pos] = 0 THEN [@ EXCEPT ![pos] = r.id] ELSE @,
         !.f = [@ EXCEPT !.locals[pos] = r.ret,
                         !.cells[pos] = r.id,
                         !.pos = IF done THEN @ + 1 ELSE @,
                         !.act = IF done THEN 0 ELSE 1]]

\* One setter or dispatcher call the user function makes during the pass.
FnCallSetter(c, fn) ==
  LET pos  == c.f.pos
      site == fn[pos]
      a    == site.acts[c.f.act]
      id   == c.f.cells[pos]
      obs  == c.f.locals[pos]
      last == c.f.act = Len(site.acts)
      c2   == IF ActEnabled(a, obs) THEN Invoke(c, a, id, obs) ELSE c
  IN  [c2 EXCEPT !.f = [@ EXCEPT !.pos = IF last THEN @ + 1 ELSE @,
                                 !.act = IF last THEN 0 ELSE @ + 1]]

\* The user function from the frame's position to its return.
FnRun(c, fn, input) ==
  IF c.f.pos > Len(fn) \/ c.threw THEN c
  ELSE CHOOSE r \in
         { FnRun(d, fn, input) :
             d \in { IF c.f.act = 0 THEN FnCallAccessor(c, fn, input)
                                    ELSE FnCallSetter(c, fn) } } : TRUE

FnAccessor ==
  /\ AtTop("fn", "body") /\ Top.pos <= Len(renderFn) /\ Top.act = 0
  /\ LET c == FnCallAccessor(Ctx(Top), renderFn, inputValue)
     IN  /\ heap' = c.heap
         /\ hooks' = c.hooks
         /\ currentHookIndex' = c.currentHookIndex
         /\ exported' = c.exported
         /\ applied' = c.applied
         /\ slotOf' = c.slotOf
         /\ extensions' = c.extensions
         /\ extLog' = c.extLog
         /\ pendingUpdates' = c.pendingUpdates
         /\ stack' = IF c.threw THEN << >> ELSE ReplaceTop(c.f)
         /\ outcome' = IF c.threw THEN "raised" ELSE outcome
  /\ UNCHANGED << isRunning, maxIterations, snapshots,
                  inputValue, outputCallback, renderFn, runs, passes,
                  fx, lastOutput, call, ended >>
  /\ UNCHANGED effectLog

FnSetter ==
  /\ AtTop("fn", "body") /\ Top.pos <= Len(renderFn) /\ Top.act >= 1
  /\ LET c == FnCallSetter(Ctx(Top), renderFn)
     IN  /\ heap' = c.heap
         /\ pendingUpdates' = c.pendingUpdates
         /\ applied' = c.applied
         /\ stack' = IF c.rerun THEN CallRun(ReplaceTop(c.f))
                                ELSE ReplaceTop(c.f)
  /\ UNCHANGED << hooks, currentHookIndex, isRunning, maxIterations, snapshots,
                  inputValue, outputCallback, renderFn, exported, runs, passes,
                  outcome, fx, lastOutput, call, ended, slotOf >>
  /\ UNCHANGED registry
  /\ UNCHANGED effectLog

\* The user function returns.
FnReturn ==
  /\ AtTop("fn", "body") /\ Top.pos > Len(renderFn)
  /\ stack' = Below
  /\ UNCHANGED << engine, exported, runs, passes, outcome, fx, lastOutput,
                  call, ended, applied, slotOf >>
  /\ UNCHANGED registry
  /\ UNCHANGED effectLog

\* ------------------------------------------------------------------ run()
\* Variant: the ceiling compared inclusively, allowing one pass too many.
LoopContinuesInclusive(hasChanges, iterations, max) ==
  hasChanges /\ iterations <= max

\* while (hasChanges && iterations < this.maxIterations), line 140.
LoopContinues(hasChanges, iterations, max) == hasChanges /\ iterations < max

\* if (iterations >= this.maxIterations) throw, lines 172-174.
LimitReached(iterations, max) == iterations >= max

\* Per hook object, the last update written to it once the closures of a
\* queue have run in enqueue order.
RECURSIVE LastApplied(_, _)
LastApplied(ap, q) ==
  IF q = << >> THEN ap
  ELSE LastApplied([ap EXCEPT ![Head(q).id] =
                       [any |-> TRUE, value |-> Head(q).newValue]], Tail(q))

\* The loop head and the start of a pass, lines 140-155.
RunEnter ==
  /\ AtTop("run", "while")
  /\ LoopContinues(Top.hasChanges, Top.iterations, maxIterations)
  /\ currentHookIndex' = 0
  /\ isRunning' = TRUE
  /\ pendingUpdates' = << >>
  /\ stack' = Append(ReplaceTop([Top EXCEPT !.hasChanges = FALSE,
                                            !.pc = "afterFn"]),
                     FnFrame(Len(renderFn), heap))
  /\ passes' = passes + 1
  /\ UNCHANGED << heap, hooks, maxIterations, snapshots, inputValue,
                  outputCallback, renderFn, exported, runs, outcome, fx,
                  lastOutput, call, ended, applied, slotOf >>
  /\ UNCHANGED registry
  /\ UNCHANGED effectLog

\* The loop condition fails, line 140.
RunExit ==
  /\ AtTop("run", "while")
  /\ ~LoopContinues(Top.hasChanges, Top.iterations, maxIterations)
  /\ stack' = ReplaceTop([Top EXCEPT !.pc = "limit"])
  /\ UNCHANGED << engine, exported, runs, passes, outcome, fx, lastOutput,
                  call, ended, applied, slotOf >>
  /\ UNCHANGED registry
  /\ UNCHANGED effectLog

\* The loop as a function of its state L: the pass context c, the locals
\* iterations and hasChanges, the snapshot log and the count of passes.
\* (Intermediate results are bound through singleton sets, which makes TLC
\* evaluate each of them once.)
\* The start of a pass, lines 141-144.
PassStart(L, fn) ==
  [L.c EXCEPT !.currentHookIndex = 0, !.isRunning = TRUE,
              !.pendingUpdates = << >>, !.f = FnFrame(Len(fn), L.c.heap)]

\* The end of a pass whose user function returned in context c, lines
\* 157-169: the snapshot, then the queue.
PassEnd(L, c, now) ==
  [c |-> [c EXCEPT
            !.isRunning = FALSE,
            !.heap = IF Len(c.pendingUpdates) > 0
                       THEN ApplyUpdates(@, c.pendingUpdates) ELSE @,
            !.pendingUpdates = << >>,
            !.applied = LastApplied(@, c.pendingUpdates)],
   iterations |-> L.iterations + 1,
   hasChanges |-> Len(c.pendingUpdates) > 0,
   queued |-> Len(c.pendingUpdates),
   snapshots |-> Append(L.snapshots,
                        captureSnapshot(c.heap, c.hooks, L.iterations, now)),
   passes |-> L.passes + 1]

\* One evaluation of the loop condition and, if it holds, one whole pass.
LoopPass(L, fn, input, max, now) ==
  IF ~LoopContinues(L.hasChanges, L.iterations, max) THEN L
  ELSE CHOOSE r \in { PassEnd(L, c, now) :
                        c \in { FnRun(PassStart(L, fn), fn, input) } } : TRUE

\* n evaluations of the loop condition, each with the pass it admits.
RECURSIVE LoopPasses(_, _, _, _, _, _)
LoopPasses(L, n, fn, input, max, now) ==
  IF n = 0 THEN L
  ELSE IF n = 1 THEN LoopPass(L, fn, input, max, now)
  ELSE CHOOSE r \in { LoopPasses(M, n - (n \div 2), fn, input, max, now) :
                        M \in { LoopPasses(L, n \div 2, fn, input, max, now) } } :
         TRUE

\* The whole loop of run(), lines 140-170, as a single step.  The condition
\* fails within maxIterations + 1 evaluations.
RunLoop ==
  /\ AtTop("run", "while")
  /\ \E L0 \in { [c |-> Ctx(BlankFrame), iterations |-> Top.iterations,
                   hasChanges |-> Top.hasChanges, queued |-> Top.queued,
                   snapshots |-> snapshots, passes |-> passes] } :
     \E L \in { LoopPasses(L0, maxIterations + 1, renderFn, inputValue,
                           maxIterations, runs) } :
         /\ heap' = L.c.heap
         /\ hooks' = L.c.hooks
         /\ currentHookIndex' = L.c.currentHookIndex
         /\ isRunning' = L.c.isRunning
         /\ pendingUpdates' = L.c.pendingUpdates
         /\ exported' = L.c.exported
         /\ applied' = L.c.applied
         /\ slotOf' = L.c.slotOf
         /\ extensions' = L.c.extensions
         /\ extLog' = L.c.extLog
         /\ snapshots' = L.snapshots
         /\ passes' = L.passes
         /\ stack' = ReplaceTop([Top EXCEPT !.iterations = L.iterations,
                                            !.hasChanges = L.hasChanges,
                                            !.queued = L.queued,
                                            !.pc = "limit"])
  /\ UNCHANGED << maxIterations, inputValue, outputCallback, renderFn, runs,
                  outcome, fx, lastOutput, call, ended >>
  /\ UNCHANGED effectLog

\* Variant: the snapshot is taken of the hooks as the queue will leave them.
RunAfterFnApplied ==
  /\ AtTop("run", "afterFn")
  /\ isRunning' = FALSE
  /\ snapshots' =
       Append(snapshots,
              captureSnapshot(ApplyUpdates(heap, pendingUpdates), hooks,
                              Top.iterations, runs))
  /\ stack' = ReplaceTop([Top EXCEPT !.pc = "pending"])
  /\ UNCHANGED << heap, hooks, currentHookIndex, pendingUpdates, maxIterations,
                  inputValue, outputCallback, renderFn, exported, runs, passes,
                  outcome, fx, lastOutput, call, ended, applied, slotOf >>
  /\ UNCHANGED registry
  /\ UNCHANGED effectLog

\* Variant: a snapshot is taken only of a pass that queued no update.
RunAfterFnStableOnly ==
  /\ AtTop("run", "afterFn")
  /\ isRunning' = FALSE
  /\ snapshots' =
       IF Len(pendingUpdates) > 0 THEN snapshots
       ELSE Append(snapshots, captureSnapshot(heap, hooks, Top.iterations, runs))
  /\ stack' = ReplaceTop([Top EXCEPT !.pc = "pending"])
  /\ UNCHANGED << heap, hooks, currentHookIndex, pendingUpdates, maxIterations,
                  inputValue, outputCallback, renderFn, exported, runs, passes,
                  outcome, fx, lastOutput, call, ended, applied, slotOf >>
  /\ UNCHANGED registry
  /\ UNCHANGED effectLog

\* After the user function returned, lines 157-160.
RunAfterFn ==
  /\ AtTop("run", "afterFn")
  /\ isRunning' = FALSE
  /\ snapshots' =
       Append(snapshots, captureSnapshot(heap, hooks, Top.iterations, runs))
  /\ stack' = ReplaceTop([Top EXCEPT !.pc = "pending"])
  /\ UNCHANGED << heap, hooks, currentHookIndex, pendingUpdates, maxIterations,
                  inputValue, outputCallback, renderFn, exported, runs, passes,
                  outcome, fx, lastOutput, call, ended, applied, slotOf >>
  /\ UNCHANGED registry
  /\ UNCHANGED effectLog

\* Variant: runEffects() is called at the end of every pass.
RunPendingThenEffects ==
  /\ AtTop("run", "pending")
  /\ heap' = IF Len(pendingUpdates) > 0
               THEN ApplyUpdates(heap, pendingUpdates) ELSE heap
  /\ pendingUpdates' = << >>
  /\ stack' = Append(ReplaceTop([Top EXCEPT
                 !.hasChanges = IF Len(pendingUpdates) > 0 THEN TRUE ELSE @,
                 !.queued = Len(pendingUpdates),
                 !.iterations = @ + 1,
                 !.pc = "while"]), EffectsFrame(hooks))
  /\ UNCHANGED << hooks, currentHookIndex, isRunning, maxIterations, snapshots,
                  inputValue, outputCallback, renderFn, exported, runs, passes,
                  outcome, fx, lastOutput, call, ended, slotOf >>
  /\ applied' = LastApplied(applied, pendingUpdates)
  /\ UNCHANGED registry
  /\ UNCHANGED effectLog

\* Processing the queue and counting the pass, lines 163-169.
RunPending ==
  /\ AtTop("run", "pending")
  /\ heap' = IF Len(pendingUpdates) > 0
               THEN ApplyUpdates(heap, pendingUpdates) ELSE heap
  /\ pendingUpdates' = << >>
  /\ stack' = ReplaceTop([Top EXCEPT
                 !.hasChanges = IF Len(pendingUpdates) > 0 THEN TRUE ELSE @,
                 !.queued = Len(pendingUpdates),
                 !.iterations = @ + 1,
                 !.pc = "while"])
  /\ UNCHANGED << hooks, currentHookIndex, isRunning, maxIterations, snapshots,
                  inputValue, outputCallback, renderFn, exported, runs, passes,
                  outcome, fx, lastOutput, call, ended, slotOf >>
  /\ applied' = LastApplied(applied, pendingUpdates)
  /\ UNCHANGED registry
  /\ UNCHANGED effectLog

\* Variant: the ceiling checked only after runEffects() has run.
RunLimitAfterEffects ==
  /\ \/ /\ AtTop("run", "limit")
        /\ stack' = Append(ReplaceTop([Top EXCEPT !.pc = "late"]),
                           EffectsFrame(hooks))
        /\ UNCHANGED << outcome, ended >>
     \/ /\ AtTop("run", "late")
        /\ IF LimitReached(Top.iterations, maxIterations)
             THEN /\ stack' = << >>
                  /\ outcome' = "threw"
                  /\ ended' = [any |-> TRUE, run |-> runs, iterations |-> Top.iterations,
                                queued |-> Top.queued, threw |-> TRUE]
             ELSE /\ stack' = ReplaceTop([Top EXCEPT !.pc = "output"])
                  /\ UNCHANGED << outcome, ended >>
  /\ UNCHANGED << engine, exported, runs, passes, fx, lastOutput, call,
                  applied, slotOf >>
  /\ UNCHANGED registry
  /\ UNCHANGED effectLog

\* Variant: a stabilized run goes to its output without calling runEffects().
RunLimitSkipEffects ==
  /\ AtTop("run", "limit")
  /\ IF LimitReached(Top.iterations, maxIterations)
       THEN /\ stack' = << >>
            /\ outcome' = "threw"
            /\ ended' = [any |-> TRUE, run |-> runs, iterations |-> Top.iterations,
                          queued |-> Top.queued, threw |-> TRUE]
            /\ UNCHANGED fx
       ELSE /\ stack' = ReplaceTop([Top EXCEPT !.pc = "output"])
            /\ fx' = [fx EXCEPT !.log = Append(@, Event("stable", 0))]
            /\ UNCHANGED << outcome, ended >>
  /\ UNCHANGED << engine, exported, runs, passes, lastOutput, call,
                  applied, slotOf >>
  /\ UNCHANGED registry
  /\ UNCHANGED effectLog

\* The ceiling check, lines 172-177: the error unwinds every frame.
RunLimit ==
  /\ AtTop("run", "limit")
  /\ IF LimitReached(Top.iterations, maxIterations)
       THEN /\ stack' = << >>
            /\ outcome' = "threw"
            /\ ended' = [any |-> TRUE, run |-> runs, iterations |-> Top.iterations,
                          queued |-> Top.queued, threw |-> TRUE]
            /\ UNCHANGED fx
       ELSE /\ stack' = Append(ReplaceTop([Top EXCEPT !.pc = "output"]),
                               EffectsFrame(hooks))
            /\ fx' = [fx EXCEPT !.log = Append(@, Event("stable", 0))]
            /\ UNCHANGED << outcome, ended >>
  /\ UNCHANGED << engine, exported, runs, passes, lastOutput, call,
                  applied, slotOf >>
  /\ UNCHANGED registry
  /\ UNCHANGED effectLog

\* The output callback and the return of run(), lines 180-184.
RunOutput ==
  /\ AtTop("run", "output")
  /\ IF outputCallback
       THEN /\ lastOutput' = buildOutput(heap, hooks)
            /\ fx' = [fx EXCEPT !.outputs = @ + 1,
                                !.log = Append(@, Event("output", 0))]
       ELSE UNCHANGED << lastOutput, fx >>
  /\ stack' = Below
  /\ outcome' = Returned(stack')
  /\ ended' = [any |-> TRUE, run |-> runs, iterations |-> Top.iterations,
                queued |-> Top.queued, threw |-> FALSE]
  /\ UNCHANGED << engine, exported, runs, passes, call, applied, slotOf >>
  /\ UNCHANGED registry
  /\ UNCHANGED effectLog

\* ------------------------------------------------------------ runEffects()
\* Variant: every effect is invoked, whatever its hasRun.
EffectsVisitEvery ==
  /\ AtTop("runEffects", "visit")
  /\ IF Top.idx > Len(Top.arr)
       THEN /\ stack' = Below
            /\ UNCHANGED << fx, effectLog >>
       ELSE LET hook == heap[Top.arr[Top.idx]]
            IN  IF hook.type = "effect"
                  THEN /\ fx' = IF hook.cleanup # NoCleanup
                                  THEN [fx EXCEPT
                                          !.cleanups = @ + 1,
                                          !.log = Append(@, Event("cleanup",
                                                             Top.arr[Top.idx]))]
                                  ELSE fx
                       /\ effectLog' =
                            IF hook.cleanup # NoCleanup
                              THEN Invoked(effectLog, {Top.arr[Top.idx]})
                              ELSE effectLog
                       /\ stack' = ReplaceTop([Top EXCEPT !.pc = "callback"])
                  ELSE /\ stack' = ReplaceTop([Top EXCEPT !.idx = @ + 1])
                       /\ UNCHANGED << fx, effectLog >>
  /\ UNCHANGED << engine, exported, runs, passes, outcome, lastOutput, call,
                  ended, applied, slotOf >>
  /\ UNCHANGED registry

\* hooks.forEach over the array as it was when runEffects began; for an
\* effect that has not run, the stored cleanup is invoked first (302-308).
EffectsVisit ==
  /\ AtTop("runEffects", "visit")
  /\ IF Top.idx > Len(Top.arr)
       THEN /\ stack' = Below
            /\ UNCHANGED << fx, effectLog >>
       ELSE LET hook == heap[Top.arr[Top.idx]]
            IN  IF hook.type = "effect" /\ ~hook.hasRun
                  THEN /\ fx' = IF hook.cleanup # NoCleanup
                                  THEN [fx EXCEPT
                                          !.cleanups = @ + 1,
                                          !.log = Append(@, Event("cleanup",
                                                             Top.arr[Top.idx]))]
                                  ELSE fx
                       /\ effectLog' =
                            IF hook.cleanup # NoCleanup
                              THEN Invoked(effectLog, {Top.arr[Top.idx]})
                              ELSE effectLog
                       /\ stack' = ReplaceTop([Top EXCEPT !.pc = "callback"])
                  ELSE /\ stack' = ReplaceTop([Top EXCEPT !.idx = @ + 1])
                       /\ UNCHANGED << fx, effectLog >>
  /\ UNCHANGED << engine, exported, runs, passes, outcome, lastOutput, call,
                  ended, applied, slotOf >>
  /\ UNCHANGED registry

\* const result = hook.callback(), line 311: the body of the closure makes
\* its call, which may write a hook and start a nested run; the callback's
\* result is held until it returns.
EffectsCallback ==
  /\ AtTop("runEffects", "callback")
  /\ LET id == Top.arr[Top.idx]
         cl == heap[id].callback
         c  == IF cl.act.op # "none" /\ ActEnabled(cl.act, cl.obs)
                 THEN Invoke(Ctx(BlankFrame), cl.act, cl.id, cl.obs)
                 ELSE Ctx(BlankFrame)
         f  == [Top EXCEPT !.result = IF ReturnsCleanup(cl) THEN 1 ELSE 0,
                           !.pc = "store"]
     IN  /\ fx' = [fx EXCEPT !.effects = @ + 1,
                             !.log = Append(@, Event("effect", id))]
         /\ effectLog' = Ran(effectLog, id, heap[id].hasDeps, heap[id].deps)
         /\ heap' = c.heap
         /\ pendingUpdates' = c.pendingUpdates
         /\ applied' = c.applied
         /\ stack' = IF c.rerun THEN CallRun(ReplaceTop(f)) ELSE ReplaceTop(f)
  /\ UNCHANGED << hooks, currentHookIndex, isRunning, maxIterations, snapshots,
                  inputValue, outputCallback, renderFn, exported, runs, passes,
                  outcome, lastOutput, call, ended, slotOf >>
  /\ UNCHANGED registry

\* Storing the cleanup and marking the effect as run, lines 312-316.
EffectsStore ==
  /\ AtTop("runEffects", "store")
  /\ LET id == Top.arr[Top.idx]
     IN  heap' = [heap EXCEPT
                    ![id].cleanup = IF Top.result # 0 THEN Top.result ELSE @,
                    ![id].hasRun = TRUE]
  /\ effectLog' =
       IF Top.result # 0
         THEN CleanupReturned(effectLog, Top.arr[Top.idx])
         ELSE effectLog
  /\ stack' = ReplaceTop([Top EXCEPT !.idx = @ + 1, !.pc = "visit", !.result = 0])
  /\ UNCHANGED << hooks, currentHookIndex, isRunning, pendingUpdates,
                  maxIterations, snapshots, inputValue, outputCallback,
                  renderFn, exported, runs, passes, outcome, fx, lastOutput,
                  call, ended, applied, slotOf >>
  /\ UNCHANGED registry

\* ------------------------------------------------------------ specification
\* What follows the loop: the ceiling check, the effects, the output.
AfterLoop ==
  \/ RunLimit
  \/ RunOutput
  \/ EffectsVisit
  \/ EffectsCallback
  \/ EffectsStore

\* A pass taken one capability call and one setter call at a time.
Steps ==
  \/ RunEnter
  \/ RunAfterFn
  \/ RunPending
  \/ FnAccessor
  \/ FnSetter
  \/ FnReturn
  \/ RunExit
  \/ AfterLoop

Next ==
  \/ \E f \in Programs : SetFn(f)
  \/ Update
  \/ \E v \in ExtValues : SetInput(v)
  \/ OnOutput
  \/ Cleanup
  \/ ClearSnapshots
  \/ \E e \in exported : \E a \in ExtActs(e.kind) : ExternalSetter(e, a)
  \/ Steps

Spec == Init /\ [][Next]_vars

\* The engine driven by a caller whose function nears the iteration ceiling,
\* the loop of each run taken as one step.
NextCeiling ==
  \/ \E f \in CeilingPrograms : SetFn(f)
  \/ Update
  \/ \E v \in ExtValues : SetInput(v)
  \/ OnOutput
  \/ Cleanup
  \/ ClearSnapshots
  \/ \E e \in exported : \E a \in ExtActs(e.kind) : ExternalSetter(e, a)
  \/ RunLoop
  \/ AfterLoop

SpecCeiling == Init /\ [][NextCeiling]_vars

\* The engine driven by a caller whose function starts runs from its effect
\* callbacks, the loop of each run taken as one step.
NextNested ==
  \/ \E f \in NestedPrograms : SetFn(f)
  \/ Update
  \/ \E v \in ExtValues : SetInput(v)
  \/ OnOutput
  \/ Cleanup
  \/ ClearSnapshots
  \/ \E e \in exported : \E a \in ExtActs(e.kind) : ExternalSetter(e, a)
  \/ RunLoop
  \/ AfterLoop

SpecNested == Init /\ [][NextNested]_vars

\* The engine driven by a caller whose function reads the input.
NextInput ==
  \/ \E f \in InputPrograms : SetFn(f)
  \/ Update
  \/ \E v \in ExtValues : SetInput(v)
  \/ OnOutput
  \/ Cleanup
  \/ ClearSnapshots
  \/ \E e \in exported : \E a \in ExtActs(e.kind) : ExternalSetter(e, a)
  \/ Steps

SpecInput == Init /\ [][NextInput]_vars

\* The engine driven by a caller whose functions have effects that set state
\* and return cleanup functions, or throw.
NextEffects ==
  \/ \E f \in EffectPrograms : SetFn(f)
  \/ Update
  \/ \E v \in ExtValues : SetInput(v)
  \/ OnOutput
  \/ Cleanup
  \/ ClearSnapshots
  \/ \E e \in exported : \E a \in ExtActs(e.kind) : ExternalSetter(e, a)
  \/ Steps

SpecEffects == Init /\ [][NextEffects]_vars

\* The engine driven by a caller that registers extensions and passes a
\* function calling them.
NextExt ==
  \/ \E names \in ExtBundles : Extend(names)
  \/ \E f \in ExtPrograms :
       (\A n \in Needs(f) : extensions[n].registered) /\ SetFn(f)
  \/ Update
  \/ \E v \in ExtValues : SetInput(v)
  \/ OnOutput
  \/ Cleanup
  \/ ClearSnapshots
  \/ \E e \in exported : \E a \in ExtActs(e.kind) : ExternalSetter(e, a)
  \/ Steps

SpecExt == Init /\ [][NextExt]_vars

\* The engine driven by a caller whose function writes refs and objects.
NextObjects ==
  \/ \E f \in ObjectPrograms : SetFn(f)
  \/ Update
  \/ \E v \in ExtValues : SetInput(v)
  \/ OnOutput
  \/ Cleanup
  \/ ClearSnapshots
  \/ \E e \in exported : \E a \in ExtActs(e.kind) : ExternalSetter(e, a)
  \/ Steps

SpecObjects == Init /\ [][NextObjects]_vars


\* ================================================================== claims
RunFrames == {k \in 1..Len(stack) : stack[k].proc = "run"}

StateSlots == {i \in 1..Len(hooks) : heap[hooks[i]].type \in {"state", "reducer"}}

\* Every State/Reducer slot that an update was applied to holds the value of
\* the last such update.
HoldsLastUpdates ==
  \A i \in StateSlots :
    applied[hooks[i]].any => heap[hooks[i]].value = applied[hooks[i]].value

\* C1: in any run the loop stops at the first pass that queued no update (no
\* pass of a run follows a pass of that run with an empty queue), and once
\* the loop has stopped every State/Reducer slot holds the value of the last
\* update applied to it.
C1_StopsAtFixpointWithLastUpdates ==
  /\ \A k \in RunFrames :
       stack[k].pc \in {"afterFn", "pending"} =>
         (stack[k].iterations = 0 \/ stack[k].queued > 0)
  /\ \A k \in RunFrames :
       (stack[k].pc = "limit" /\ ~stack[k].hasChanges) => HoldsLastUpdates

\* C2: a run raises the iteration-limit error exactly when it completed the
\* ceiling number of passes and each of them, the last included, queued an
\* update; a run with a pass that queued nothing returns without error.
C2_ErrorIffNoFixpoint ==
  ended.any =>
    (ended.threw <=> (ended.iterations = maxIterations /\ ended.queued > 0))

\* C3: a run that raises the error executed exactly the ceiling number of
\* passes and appended that many snapshots, indexed 0 .. ceiling - 1, and no
\* run starts a pass beyond the ceiling; the unconditional increment ends its
\* run by raising the error out of setFn.
C3_CeilingPassesThenError ==
  /\ \A k \in RunFrames : stack[k].iterations <= maxIterations
  /\ (Idle /\ outcome = "threw") =>
       /\ ended.iterations = maxIterations
       /\ Len(snapshots) >= maxIterations
       /\ \A i \in 1..maxIterations :
            snapshots[Len(snapshots) - maxIterations + i].iteration = i - 1
  /\ (renderFn = Increment /\ Idle /\ call = "setFn") =>
       /\ outcome = "threw"
       /\ passes = maxIterations
       /\ Len(snapshots) = maxIterations

C3_Witness ==
  /\ renderFn = Increment /\ Idle /\ outcome = "threw"
  /\ Len(snapshots) = maxIterations
  /\ snapshots[maxIterations].iteration = maxIterations - 1

\* C4: when a run raises the iteration-limit error, the public call that
\* started it has invoked no effect callback, no cleanup and no output
\* callback, nothing runs after the error (no retry), and the State/Reducer
\* slots hold the values of the last updates applied to them.
C4_ErrorLeavesNoSideEffects ==
  outcome = "threw" =>
    /\ Idle
    /\ fx = NoFx
    /\ ended.threw /\ ended.iterations = maxIterations
    /\ HoldsLastUpdates

C4_Witness ==
  /\ outcome = "threw" /\ outputCallback
  /\ \E i \in 1..Len(hooks) :
       heap[hooks[i]].type = "effect" /\ ~heap[hooks[i]].hasRun
  /\ \E i \in StateSlots : applied[hooks[i]].any


\* A setter or dispatcher call of the user function is the next step.
InFn == AtTop("fn", "body") /\ Top.pos <= Len(renderFn)
SetterSite == renderFn[Top.pos]
SetterAct == SetterSite.acts[Top.act]
AtSetter ==
  InFn /\ Top.act >= 1 /\ SetterAct.op \in {"set", "setFn", "dispatch"}
SetterId == Top.cells[Top.pos]
SetterMade == ActEnabled(SetterAct, Top.locals[Top.pos])
SetterValue == NewValue(SetterAct, Top.locals[Top.pos], heap[SetterId])

\* The call sites of the current pass whose accessor has returned.
Visited ==
  IF AtTop("fn", "body")
    THEN {p \in 1..Len(renderFn) : p < Top.pos \/ (p = Top.pos /\ Top.act >= 1)}
    ELSE {}

\* The value a slot held when the current pass began (its initial value if
\* the pass created it).
Committed(p) ==
  IF Top.cells[p] <= Len(Top.entry)
    THEN Top.entry[Top.cells[p]].value ELSE renderFn[p].init

\* C5: a setter or dispatcher called with a result identical to the stored
\* value, during a pass or from outside, queues nothing, leaves every hook
\* unchanged and starts no run or pass; a function that always sets its state
\* to the current value runs exactly one pass per run.
C5_IdenticalStep ==
  /\ (AtSetter /\ SetterMade /\ SetterValue = heap[SetterId].value) =>
       /\ heap' = heap /\ pendingUpdates' = pendingUpdates
       /\ Len(stack') = Len(stack) /\ passes' = passes
  /\ \A e \in exported : \A a \in ExtActs(e.kind) :
       (ExternalSetter(e, a)
          /\ NewValue(a, undefined, heap[e.id]) = heap[e.id].value) =>
         /\ heap' = heap /\ pendingUpdates' = pendingUpdates
         /\ stack' = << >> /\ passes' = passes /\ runs' = runs
  /\ renderFn = SetSame =>
       /\ \A k \in RunFrames : stack[k].iterations <= 1
       /\ ended.any => (ended.iterations = 1 /\ ~ended.threw)

C5_IdenticalValueIsNoOp == [][C5_IdenticalStep]_vars

C5_Witness ==
  /\ renderFn = SetSame /\ Idle /\ call = "setterSame"
  /\ ended.iterations = 1 /\ passes = 1

\* C6: a setter or dispatcher invoked while a pass executes changes no hook
\* object and not the hook array, raises nothing and starts no run; a changed
\* value is appended to the queue; and every State/Reducer accessor call of
\* the pass returned the value committed before the pass, which the slot
\* still holds.
C6_QueuedStep ==
  /\ AtSetter =>
       /\ heap' = heap /\ hooks' = hooks
       /\ outcome' = outcome /\ Len(stack') = Len(stack)
       /\ pendingUpdates' =
            IF SetterMade /\ SetterValue # heap[SetterId].value
              THEN Append(pendingUpdates,
                          [id |-> SetterId, newValue |-> SetterValue])
              ELSE pendingUpdates
  /\ \A p \in Visited :
       renderFn[p].kind \in {"state", "reducer"} =>
         /\ Top.locals[p] = Committed(p)
         /\ heap[Top.cells[p]].value = Top.locals[p]

C6_SettersInPassOnlyQueue == [][C6_QueuedStep]_vars

C6_Witness ==
  /\ InFn /\ isRunning /\ Len(pendingUpdates) >= 1
  /\ \E p \in Visited :
       /\ renderFn[p].kind = "state"
       /\ \E k \in 1..Len(pendingUpdates) :
            /\ pendingUpdates[k].id = Top.cells[p]
            /\ pendingUpdates[k].newValue # heap[Top.cells[p]].value

\* C7: the step that follows a pass applies every queued update in enqueue
\* order and empties the queue before the next pass begins: each hook
\* object then holds the value of the last update queued for it, whatever
\* else was queued, and no other field of any hook changes.
QueuedFor(id) == {k \in 1..Len(pendingUpdates) : pendingUpdates[k].id = id}

LastFor(id) == CHOOSE k \in QueuedFor(id) : \A j \in QueuedFor(id) : j <= k

C7_ApplyStep ==
  /\ AtTop("run", "pending") =>
       /\ pendingUpdates' = << >>
       /\ Len(heap') = Len(heap)
       /\ \A id \in 1..Len(heap) :
            heap'[id] =
              IF QueuedFor(id) = {} THEN heap[id]
              ELSE [heap[id] EXCEPT
                      !.value = pendingUpdates[LastFor(id)].newValue]
  /\ AtTop("run", "while") => pendingUpdates = << >>
  /\ (InFn /\ Top.pos = 1 /\ Top.act = 0) => pendingUpdates = << >>

C7_QueueAppliedInOrder == [][C7_ApplyStep]_vars

C7_Witness ==
  /\ renderFn = TwiceDirect /\ AtTop("run", "while")
  /\ Top.queued = 2 /\ heap[hooks[1]].value = 2

\* C8: the value a queued update writes is computed when it is enqueued,
\* from the value the slot held before the pass: a functional update or a
\* dispatch adds its argument to that value whatever was queued earlier in
\* the pass, so two such updates of one slot do not compose.
C8_EnqueueStep ==
  /\ (AtSetter /\ SetterMade /\ SetterAct.op \in {"setFn", "dispatch"}
        /\ SetterAct.arg # 0) =>
       pendingUpdates' =
         Append(pendingUpdates,
                [id |-> SetterId,
                 newValue |-> Committed(Top.pos) + SetterAct.arg])
  /\ (renderFn = TwiceFunctional /\ Idle /\ call = "setFn") =>
       (heap[hooks[1]].value = 1 /\ heap[hooks[2]].value = 1)

C8_ValueComputedAtEnqueue == [][C8_EnqueueStep]_vars

C8_Witness ==
  /\ renderFn = TwiceFunctional /\ InFn
  /\ Len(pendingUpdates) >= 2
  /\ pendingUpdates[1] = pendingUpdates[2]

\* C9: a setter or dispatcher called from outside a pass with a changed value
\* writes its hook at once, leaves every other hook as it was and starts a
\* run at iteration 0; every pass starts at position 0; and when the call has
\* returned that run is complete: it reached its fixpoint, its snapshots
\* start at iteration 0, every effect has run and the output callback, if
\* registered, was invoked, last of all, with the mapping of the final store.
C9_ExternalStep ==
  /\ \A e \in exported : \A a \in ExtActs(e.kind) :
       (ExternalSetter(e, a)
          /\ NewValue(a, undefined, heap[e.id]) # heap[e.id].value) =>
         /\ heap' = [heap EXCEPT
                       ![e.id].value = NewValue(a, undefined, heap[e.id])]
         /\ hooks' = hooks
         /\ stack' = << RunFrame >>
  /\ (InFn /\ Top.pos = 1 /\ Top.act = 0) => currentHookIndex = 0
  /\ (Idle /\ call = "setter" /\ outcome = "returned") =>
       /\ ended.run = runs /\ ~ended.threw /\ ended.queued = 0
       /\ ended.iterations >= 1
       /\ Len(snapshots) >= ended.iterations
       /\ \A i \in 1..ended.iterations :
            LET snap == snapshots[Len(snapshots) - ended.iterations + i]
            IN  snap.iteration = i - 1 /\ snap.timestamp = runs
       /\ ~isRunning /\ pendingUpdates = << >>
       /\ \A i \in 1..Len(hooks) :
            heap[hooks[i]].type = "effect" => heap[hooks[i]].hasRun
       /\ outputCallback =>
            /\ fx.outputs >= 1
            /\ fx.log[Len(fx.log)] = Event("output", 0)
            /\ lastOutput = buildOutput(heap, hooks)

C9_ExternalSetterRunsToCompletion == [][C9_ExternalStep]_vars

C9_Witness ==
  /\ Idle /\ call = "setter" /\ outcome = "returned" /\ outputCallback
  /\ ended.iterations >= 2 /\ fx.effects >= 1

\* C10: every capability call of a pass addresses a slot of its own hook
\* kind, and the slot its call site first addressed (output sites: first
\* addressed since the last setInput).
C10_SlotIdentity ==
  \A p \in Visited :
    /\ heap[Top.cells[p]].type = renderFn[p].kind
    /\ Top.cells[p] = slotOf[p]


OutputKinds == {"outputObject", "outputArray"}

\* The user function is executing the first pass of the run setInput started.
FirstPassAfterSetInput ==
  /\ call = "setInput" /\ Len(stack) = 2 /\ AtTop("fn", "body")
  /\ stack[1].proc = "run" /\ stack[1].iterations = 0

\* C11: in the first pass after setInput every State, Reducer, Ref, Effect
\* and Input accessor call addresses the hook object it addressed before
\* setInput, and a State, Reducer or Ref call returns the value that object
\* held before setInput, wherever the output calls sit in the call order.
C11_SetInputKeepsOtherSlots ==
  FirstPassAfterSetInput =>
    \A p \in Visited :
      renderFn[p].kind \notin OutputKinds =>
        /\ Top.cells[p] = slotOf[p]
        /\ renderFn[p].kind \in {"state", "reducer"} =>
             Top.locals[p] = Top.entry[slotOf[p]].value
        /\ renderFn[p].kind = "ref" =>
             Top.locals[p] = Top.entry[slotOf[p]].current


\* The number of slots that are not OutputEntry slots.
NonOutputCount ==
  Cardinality({i \in 1..Len(hooks) : heap[hooks[i]].type \notin OutputKinds})

\* C12: no step makes the hook array shorter except the setInput call
\* itself, and no step at all lowers the number of non-output slots.
C12_GrowStep ==
  /\ Len(hooks') < Len(hooks) => (Idle /\ call' = "setInput")
  /\ NonOutputCount' >= NonOutputCount

C12_StoreOnlyGrows == [][C12_GrowStep]_vars

C12_Witness ==
  /\ renderFn = Pipeline /\ call = "setInput" /\ AtTop("run", "while")
  /\ Top.iterations = 0 /\ Len(hooks) = 4 /\ Len(heap) = 6


EffectsFrames == {k \in 1..Len(stack) : stack[k].proc = "runEffects"}

\* How often the log of fx holds event e.
LogCount(e) == Cardinality({i \in 1..Len(fx.log) : fx.log[i] = e})

SetterOps == {"set", "setFn", "dispatch"}

\* C13: runEffects executes only for a run whose loop has ended at a pass
\* that queued nothing, so no pass of that run follows an effect callback;
\* each run invokes an effect at most once; and the callback invoked is the
\* closure of the final pass: the value it captured is the value its slot
\* holds.
C13_EffectsAfterFinalPass ==
  /\ \A k \in EffectsFrames :
       /\ k > 1 /\ stack[k - 1].proc = "run" /\ stack[k - 1].pc = "output"
       /\ ~stack[k - 1].hasChanges /\ stack[k - 1].queued = 0
  /\ \A id \in 1..Len(heap) :
       LogCount(Event("effect", id)) <= LogCount(Event("stable", 0))
  /\ AtTop("runEffects", "callback") =>
       LET cl == heap[Top.arr[Top.idx]].callback
       IN  /\ ~isRunning /\ pendingUpdates = << >>
           /\ (cl.act.op \in SetterOps /\ cl.id # 0) =>
                cl.obs = heap[cl.id].value

C13_Witness ==
  /\ renderFn = Pipeline /\ AtTop("runEffects", "callback")
  /\ stack[1].iterations = 3 /\ fx.effects = 0


EffectSlots == {i \in 1..Len(hooks) : heap[hooks[i]].type = "effect"}

\* C14: when a run comes to build its output every effect of the store has
\* been invoked (hasRun), so what the effects did to the output handles is
\* in the hook objects: an entry an effect disables is disabled; and the
\* mapping handed to the callback is built from the store as it is then.
C14_OutputStep ==
  AtTop("run", "output") =>
    /\ \A i \in EffectSlots : heap[hooks[i]].hasRun
    /\ \A i \in EffectSlots :
         LET cl == heap[hooks[i]].callback
         IN  (cl.act.op \in {"enable", "disable"} /\ cl.id # 0) =>
               heap[cl.id].enabled = (cl.act.op = "enable")
    /\ outputCallback =>
         /\ lastOutput' = buildOutput(heap, hooks)
         /\ fx'.outputs = fx.outputs + 1
         /\ heap' = heap

C14_EffectsBeforeOutput == [][C14_OutputStep]_vars

C14_Witness ==
  /\ renderFn = EffectToggles /\ call = "setFn" /\ Idle
  /\ fx.outputs = 1 /\ fx.effects = 1
  /\ << "ns", "k" >> \notin DOMAIN lastOutput
  /\ << "ns", "items" >> \in DOMAIN lastOutput


\* The next step is an Effect accessor call on a slot that exists already.
AtEffectVisit ==
  /\ InFn /\ Top.act = 0 /\ renderFn[Top.pos].kind = "effect"
  /\ ~IsNewSlot(hooks, currentHookIndex)

\* C15: a visit to an existing Effect slot sets hasRun to false, and stores
\* the supplied list, exactly when no list is supplied, or the lists differ
\* in length, or some element differs from the stored element at its
\* position; otherwise hasRun and the stored list stay as they are.  In a
\* run started by update() no effect with a dependency list is invoked when
\* the list's values have not changed.
C15_VisitStep ==
  /\ AtEffectVisit =>
       LET site    == renderFn[Top.pos]
           id      == hooks[currentHookIndex + 1]
           d       == EvalAll(site.deps, Top.locals)
           stored  == heap[id].deps
           differs == \/ ~site.hasDeps
                      \/ Len(d) # Len(stored)
                      \/ \E i \in 1..Len(d) : d[i] # stored[i]
       IN  /\ heap'[id].hasRun = IF differs THEN FALSE ELSE heap[id].hasRun
           /\ heap'[id].deps =
                IF differs THEN (IF site.hasDeps THEN d ELSE << >>) ELSE stored
  /\ (call = "update" /\ renderFn \in {Pipeline, TwoEffects}) =>
       \A i \in EffectSlots :
         heap[hooks[i]].hasDeps => LogCount(Event("effect", hooks[i])) = 0

C15_EffectDependencyLaw == [][C15_VisitStep]_vars

C15_Witness ==
  /\ renderFn = TwoEffects /\ call = "setter" /\ Idle
  /\ LogCount(Event("effect", hooks[2])) = 1
  /\ LogCount(Event("effect", hooks[3])) = 1
  /\ LogCount(Event("effect", hooks[4])) = 0


\* The position of hook object id in the hook array (0 if it is not there).
PositionOf(id) ==
  IF \E i \in 1..Len(hooks) : hooks[i] = id
    THEN CHOOSE i \in 1..Len(hooks) : hooks[i] = id ELSE 0

\* C16: the runner takes the slots in position order; at a slot that is an
\* effect with hasRun false it invokes the stored cleanup, if any, and next
\* the callback, then stores an invocable result as the cleanup and sets
\* hasRun; at any other slot it changes nothing and invokes nothing.  In
\* the log of a call with a single run the callbacks appear in position
\* order, each cleanup directly before the callback of its slot.
C16_RunnerStep ==
  /\ (AtTop("runEffects", "visit") /\ Top.idx <= Len(Top.arr)) =>
       LET id   == Top.arr[Top.idx]
           hook == heap[id]
       IN  /\ heap' = heap
           /\ IF hook.type = "effect" /\ ~hook.hasRun
                THEN /\ stack'[Len(stack)].pc = "callback"
                     /\ stack'[Len(stack)].idx = Top.idx
                     /\ fx'.log = IF hook.cleanup # NoCleanup
                                    THEN Append(fx.log, Event("cleanup", id))
                                    ELSE fx.log
                ELSE /\ fx' = fx
                     /\ stack'[Len(stack)].pc = "visit"
                     /\ stack'[Len(stack)].idx = Top.idx + 1
  /\ AtTop("runEffects", "callback") =>
       fx'.log = Append(fx.log, Event("effect", Top.arr[Top.idx]))
  /\ AtTop("runEffects", "store") =>
       LET id == Top.arr[Top.idx]
       IN  /\ heap'[id].hasRun
           /\ heap'[id].cleanup =
                IF heap[id].callback.code = CleanupEffect
                  THEN 1 ELSE heap[id].cleanup
           /\ stack'[Len(stack)].idx = Top.idx + 1
  /\ LogCount(Event("stable", 0)) = 1 =>
       \A i \in 1..Len(fx.log) : \A j \in 1..Len(fx.log) :
         /\ (i < j /\ fx.log[i].ev = "effect" /\ fx.log[j].ev = "effect") =>
              PositionOf(fx.log[i].id) < PositionOf(fx.log[j].id)
         /\ (fx.log[i].ev = "cleanup" /\ i < Len(fx.log)) =>
              fx.log[i + 1] = Event("effect", fx.log[i].id)

C16_EffectRunnerOrder == [][C16_RunnerStep]_vars

C16_Witness ==
  /\ renderFn = TwoEffects /\ Idle /\ call = "setter"
  /\ fx.log = << Event("stable", 0),
                 Event("cleanup", hooks[2]), Event("effect", hooks[2]),
                 Event("cleanup", hooks[3]), Event("effect", hooks[3]) >>


\* The Effect slots that hold a cleanup function.
CleanupSlots == {i \in EffectSlots : heap[hooks[i]].cleanup # NoCleanup}

\* C17: a cleanup() call invokes exactly the stored cleanups of the Effect
\* slots that have one, each once, in position order, whatever their hasRun
\* and deps; it starts no run or pass, appends no snapshot, and changes no
\* hook object and not the hook array.
C17_CleanupStep ==
  (Idle /\ call' = "cleanup") =>
    /\ heap' = heap /\ hooks' = hooks /\ snapshots' = snapshots
    /\ stack' = << >> /\ runs' = runs /\ passes' = passes
    /\ pendingUpdates' = pendingUpdates /\ isRunning' = isRunning
    /\ Len(fx'.log) = Cardinality(CleanupSlots)
    /\ \A k \in 1..Len(fx'.log) :
         /\ fx'.log[k].ev = "cleanup"
         /\ PositionOf(fx'.log[k].id) \in CleanupSlots
         /\ \A j \in 1..(k - 1) :
              PositionOf(fx'.log[j].id) < PositionOf(fx'.log[k].id)

C17_InstanceCleanup == [][C17_CleanupStep]_vars

C17_Witness ==
  /\ renderFn = TeardownAfterError /\ call = "cleanup" /\ Idle
  /\ fx.log = << Event("cleanup", hooks[2]), Event("cleanup", hooks[4]) >>
  /\ ~heap[hooks[2]].hasRun /\ heap[hooks[4]].hasRun


\* The enabled OutputEntry slots, and those at one namespace/key.
EnabledOutputs ==
  {i \in 1..Len(hooks) :
     heap[hooks[i]].type \in OutputKinds /\ heap[hooks[i]].enabled}

KeyOf(i) == << heap[hooks[i]].namespace, heap[hooks[i]].key >>

EnabledAt(k) == {i \in EnabledOutputs : KeyOf(i) = k}

\* The position of the last enabled overwrite-mode entry at k (0 if none).
LastOverwrite(k) ==
  LET S == {i \in EnabledAt(k) : heap[hooks[i]].type = "outputObject"}
  IN  IF S = {} THEN 0 ELSE CHOOSE i \in S : \A j \in S : j <= i

\* The values of the slots at the positions S, in position order.
RECURSIVE ValuesInOrder(_)
ValuesInOrder(S) ==
  IF S = {} THEN << >>
  ELSE LET m == CHOOSE i \in S : \A j \in S : i <= j
       IN  << heap[hooks[m]].value >> \o ValuesInOrder(S \ {m})

\* The fold of the enabled entries: at each namespace/key with an enabled
\* entry, the sequence of the append-mode values that follow the last
\* overwrite, or else the value of that overwrite.
FoldOfEnabled ==
  [k \in {KeyOf(i) : i \in EnabledOutputs} |->
     LET after == {i \in EnabledAt(k) :
                     heap[hooks[i]].type = "outputArray" /\ i > LastOverwrite(k)}
     IN  IF after = {} THEN Scalar(heap[hooks[LastOverwrite(k)]].value)
         ELSE Array(ValuesInOrder(after))]

\* The outermost run of the last public call handed a mapping to the output
\* callback and the call has returned.
Delivered == Idle /\ outcome = "returned" /\ fx.outputs >= 1

\* C18: the mapping handed to the output callback is the fold, in position
\* order, of exactly the enabled OutputEntry slots.
C18_OutputIsFoldOfEnabled ==
  Delivered => lastOutput = FoldOfEnabled

\* C19: in the delivered mapping the value of every enabled append-mode
\* entry that no later enabled overwrite-mode entry replaces is an element
\* of the sequence at its namespace/key.
C19_AppendNeverLost ==
  Delivered =>
    \A i \in EnabledOutputs :
      (heap[hooks[i]].type = "outputArray" /\ i > LastOverwrite(KeyOf(i))) =>
        /\ KeyOf(i) \in DOMAIN lastOutput
        /\ lastOutput[KeyOf(i)].isArray
        /\ \E n \in 1..Len(lastOutput[KeyOf(i)].items) :
             lastOutput[KeyOf(i)].items[n] = heap[hooks[i]].value


\* The callback was registered before the last public call began.
Registered == outputCallback /\ call # "onOutput"

\* The runs on the stack that passed their ceiling check and have not come
\* to their output yet.
InEffects == {k \in RunFrames : stack[k].pc = "output"}

\* C20 as stated: once the public call is over, the callback was invoked
\* once for every run of the call that reached Stabilized.
C20_OncePerStabilizedRun ==
  (Idle /\ Registered) => fx.outputs = LogCount(Event("stable", 0))

\* C20, amended: the callback is invoked exactly once by every run that
\* reached Stabilized and whose effect runner returned: at any moment each
\* run that passed its ceiling check has either invoked it once or is still
\* on the stack before its output; the step that raises the error invokes
\* nothing, so neither the failing run nor the runs it aborts invoke it; and
\* nothing is invoked without a callback or by registering one.
C20_DeliveryStep ==
  /\ (Registered /\ outcome # "threw") =>
       fx.outputs + Cardinality(InEffects) = LogCount(Event("stable", 0))
  /\ (Idle /\ Registered /\ outcome = "returned") =>
       fx.outputs = LogCount(Event("stable", 0))
  /\ outcome' = "threw" =>
       (fx'.outputs = fx.outputs /\ lastOutput' = lastOutput)
  /\ ~outputCallback => (fx.outputs = 0 /\ lastOutput = NoOutput)
  /\ call = "onOutput" => fx.outputs = 0

C20_OncePerCompletedRun == [][C20_DeliveryStep]_vars

C20_Witness ==
  /\ renderFn = EffectSets /\ call = "setFn" /\ Idle /\ Registered
  /\ fx.outputs = 3 /\ LogCount(Event("stable", 0)) = 3


\* The hook objects in the array.
InArray(hs) == {hs[i] : i \in 1..Len(hs)}

\* What the Conditional function produces for an input.
ConditionalOutput(input) ==
  IF input >= 1
    THEN Put(Put(<< >>, << "result", "data" >>, Scalar(input)),
             << "result", "log" >>, Array(<< input >>))
  ELSE IF input >= 0
    THEN Put(Put(<< >>, << "result", "log" >>, Array(<< input >>)),
             << "result", "message" >>, Scalar(5))
  ELSE Put(<< >>, << "result", "message" >>, Scalar(5))

\* C21: setInput leaves no OutputEntry slot in the array; an OutputEntry
\* slot enters the array only as a new, enabled object made by an output
\* call of the pass being executed, holding the value of that call; and the
\* mapping delivered once setInput returns is the fold of the array as it is
\* then: for the function with conditional output calls, exactly the
\* entries of the calls the new input admits, each append-mode sequence with
\* one element.
C21_InputStep ==
  /\ (Idle /\ call' = "setInput") =>
       \A i \in 1..Len(hooks') : heap'[hooks'[i]].type \notin OutputKinds
  /\ \A i \in 1..Len(hooks') :
       (heap'[hooks'[i]].type \in OutputKinds /\ hooks'[i] \notin InArray(hooks)) =>
         /\ hooks'[i] > Len(heap)
         /\ heap'[hooks'[i]].enabled
         /\ InFn /\ Top.act = 0
         /\ heap'[hooks'[i]].type = renderFn[Top.pos].kind
         /\ heap'[hooks'[i]].value = Eval(renderFn[Top.pos].val, Top.locals)
  /\ (Delivered /\ call = "setInput") =>
       /\ lastOutput = buildOutput(heap, hooks)
       /\ renderFn = Conditional => lastOutput = ConditionalOutput(inputValue)

C21_SetInputStartsOutputAfresh == [][C21_InputStep]_vars

C21_Witness ==
  /\ renderFn = Conditional /\ Delivered /\ call = "setInput" /\ runs = 3
  /\ inputValue = 0 /\ snapshots[2].hooks[1].value = 1
  /\ lastOutput = ConditionalOutput(0)


\* The passes whose user function is executing or has just returned, their
\* snapshot not yet taken.
InPass == Cardinality({k \in RunFrames : stack[k].pc = "afterFn"})

\* The snapshots a run in its loop has appended so far.
TakenBy(f) == f.iterations + (IF f.pc = "pending" THEN 1 ELSE 0)

\* C22: the log changes only by clearSnapshots or by the end of a pass,
\* which appends exactly one record; outside clearSnapshots the log grows in
\* step with the count of passes (a pass started counts once its snapshot is
\* taken); the snapshots a run has taken are the last records of the log,
\* indexed 0, 1, 2, ... from the run's first pass; so the run of CountTo(3)
\* started by setFn on a new instance leaves four records indexed 0..3.
C22_SnapshotStep ==
  /\ snapshots' # snapshots =>
       \/ Idle /\ call' = "clearSnapshots" /\ snapshots' = << >>
       \/ /\ AtTop("run", "afterFn")
          /\ Len(snapshots') = Len(snapshots) + 1
          /\ SubSeq(snapshots', 1, Len(snapshots)) = snapshots
  /\ ~(Idle /\ call' = "clearSnapshots") =>
       (Len(snapshots') + InPass') - (Len(snapshots) + InPass) = passes' - passes
  /\ \A k \in RunFrames :
       stack[k].pc \in {"while", "afterFn", "pending", "limit"} =>
         /\ TakenBy(stack[k]) <= Len(snapshots)
         /\ \A j \in 1..TakenBy(stack[k]) :
              snapshots[Len(snapshots) - TakenBy(stack[k]) + j].iteration = j - 1
  /\ (renderFn = CountTo(3) /\ Idle /\ call = "setFn" /\ runs = 1) =>
       /\ Len(snapshots) = 4
       /\ \A j \in 1..4 : snapshots[j].iteration = j - 1

C22_OneSnapshotPerPass == [][C22_SnapshotStep]_vars

C22_Witness ==
  /\ renderFn = TwoStates /\ Idle /\ call = "update"
  /\ passes = 3 /\ Len(snapshots) = 3
  /\ snapshots[1].iteration = 0 /\ snapshots[2].iteration = 1
  /\ snapshots[3].iteration = 0


\* The user function has made its last call and is about to return.
AtFnReturn == AtTop("fn", "body") /\ Top.pos > Len(renderFn)

\* What reading the recorded value v yields in heap h: v itself if it is a
\* primitive or a copy, else the content of the object it refers to.
Seen(h, v) == IF IsRef(v) THEN Frozen(h[ObjId(v)].value) ELSE v

\* The record rec holds v: v itself if primitive, else a copy of the object.
Holds(rec, v) == ~IsRef(rec) /\ rec = Seen(heap, v)

\* C23: when the user function returns, each State/Reducer slot holds the
\* value its accessor returned in the pass, and the return changes no hook;
\* the snapshot step that follows appends a record tagged with the pass
\* index that shows each State/Reducer slot with the value held then, which
\* no queued update equals, each Ref with its current value, each Effect
\* with its stored deps and hasRun, and leaves hooks and queue as they are;
\* applying the queue leaves the log as it is; and an effect the runner is
\* about to invoke shows hasRun false in the last snapshot.
C23_SnapshotStep ==
  /\ AtFnReturn =>
       /\ \A p \in 1..Len(renderFn) :
            renderFn[p].kind \in {"state", "reducer"} =>
              Top.locals[p] = heap[Top.cells[p]].value
       /\ heap' = heap /\ hooks' = hooks
  /\ AtTop("run", "afterFn") =>
       /\ Len(snapshots') = Len(snapshots) + 1
       /\ snapshots'[Len(snapshots')].iteration = Top.iterations
       /\ Len(snapshots'[Len(snapshots')].hooks) = Len(hooks)
       /\ \A i \in 1..Len(hooks) :
            LET rec  == snapshots'[Len(snapshots')].hooks[i]
                hook == heap[hooks[i]]
            IN  /\ rec.type = hook.type /\ rec.index = i - 1
                /\ hook.type \in {"state", "reducer"} =>
                     /\ Holds(rec.value, hook.value)
                     /\ \A k \in QueuedFor(hooks[i]) :
                          pendingUpdates[k].newValue # hook.value
                /\ hook.type = "ref" => Holds(rec.current, hook.current)
                /\ hook.type = "effect" =>
                     rec.deps = hook.deps /\ rec.hasRun = hook.hasRun
       /\ heap' = heap /\ pendingUpdates' = pendingUpdates
  /\ AtTop("run", "pending") => snapshots' = snapshots
  /\ (AtTop("runEffects", "visit") /\ stack'[Len(stack')].pc = "callback") =>
       LET id == Top.arr[Top.idx]
       IN  /\ PositionOf(id) # 0
           /\ ~getLastSnapshot(snapshots).hooks[PositionOf(id)].hasRun

C23_SnapshotBeforeQueue == [][C23_SnapshotStep]_vars

C23_Witness ==
  /\ renderFn = Recorded /\ Idle /\ call = "setFn" /\ Len(snapshots) = 3
  /\ snapshots[1].hooks[1].value = 0 /\ snapshots[1].hooks[2].current = 10
  /\ snapshots[2].hooks[1].value = 1 /\ snapshots[2].hooks[2].current = 20
  /\ snapshots[3].hooks[3].deps = << 2 >>
  /\ ~snapshots[3].hooks[3].hasRun /\ heap[hooks[3]].hasRun


RECURSIVE SeenAll(_, _)
SeenAll(h, vs) ==
  IF vs = << >> THEN << >>
  ELSE << Seen(h, Head(vs)) >> \o SeenAll(h, Tail(vs))

\* What reading a hook record of a snapshot yields in heap h.
SeenHook(h, rec) ==
  CASE rec.type = "effect" -> [rec EXCEPT !.deps = SeenAll(h, @)]
    [] rec.type = "ref" -> [rec EXCEPT !.current = Seen(h, @)]
    [] OTHER -> [rec EXCEPT !.value = Seen(h, @)]

RECURSIVE SeenHooks(_, _)
SeenHooks(h, recs) ==
  IF recs = << >> THEN << >>
  ELSE << SeenHook(h, Head(recs)) >> \o SeenHooks(h, Tail(recs))

\* What reading a snapshot yields in heap h.
SeenSnapshot(h, snap) ==
  [iteration |-> snap.iteration, hooks |-> SeenHooks(h, snap.hooks)]

\* C24: no step but clearSnapshots removes a record from the log, and no
\* step changes what reading an existing record yields: its iteration index
\* and every recorded field of every hook record, objects included.
C24_FrozenStep ==
  ~(Idle /\ call' = "clearSnapshots") =>
    /\ Len(snapshots') >= Len(snapshots)
    /\ \A i \in 1..Len(snapshots) :
         SeenSnapshot(heap', snapshots'[i]) = SeenSnapshot(heap, snapshots[i])

C24_SnapshotsNeverChange == [][C24_FrozenStep]_vars


\* C25: getLastSnapshot returns undefined exactly when the log is empty, and
\* after a pass's snapshot step it returns the record of that pass, which
\* the step put after all earlier records; clearSnapshots empties the log,
\* changes no hook object nor the array, and starts no run or pass; the
\* first record appended to an empty log has iteration 0.
C25_LogStep ==
  /\ (getLastSnapshot(snapshots) = NoSnapshot) <=> (Len(snapshots) = 0)
  /\ AtTop("run", "afterFn") =>
       /\ getLastSnapshot(snapshots').iteration = Top.iterations
       /\ getLastSnapshot(snapshots').timestamp = runs
       /\ SubSeq(snapshots', 1, Len(snapshots)) = snapshots
       /\ Len(getSnapshots(snapshots')) = Len(snapshots) + 1
  /\ (Idle /\ call' = "clearSnapshots") =>
       /\ snapshots' = << >>
       /\ getLastSnapshot(snapshots') = NoSnapshot
       /\ heap' = heap /\ hooks' = hooks /\ pendingUpdates' = pendingUpdates
       /\ stack' = << >> /\ passes' = passes /\ runs' = runs
  /\ (Len(snapshots) = 0 /\ Len(snapshots') > 0) =>
       (Len(snapshots') = 1 /\ snapshots'[1].iteration = 0)

C25_LastSnapshotAndClear == [][C25_LogStep]_vars

C25_Witness ==
  /\ renderFn = TwoStates /\ Idle /\ call = "update" /\ passes = 3
  /\ Len(snapshots) = 1
  /\ getLastSnapshot(snapshots).iteration = 0
  /\ getLastSnapshot(snapshots).timestamp = 2


RefSlots == {i \in 1..Len(hooks) : heap[hooks[i]].type = "ref"}

\* The next step is the call at a site of the user function to the accessor
\* of the given kind.
AtAccessor(kind) ==
  /\ InFn /\ Top.act = 0 /\ renderFn[Top.pos].kind = kind
  /\ SiteCalled(renderFn[Top.pos], Top.locals)

\* The next step is an assignment to ref.current, made by the user function
\* during a pass or by an effect callback outside every pass.
AssignInPass == InFn /\ Top.act >= 1 /\ SetterAct.op = "assign" /\ SetterMade

AssignOutside ==
  /\ AtTop("runEffects", "callback")
  /\ heap[Top.arr[Top.idx]].callback.act.op = "assign"

\* C26: every Ref accessor call of a site returns the cell the site's first
\* call returned, with the value the cell holds, and changes no cell; the
\* value of a cell changes only by an assignment; and an assignment, in a
\* pass or outside, leaves the queue as it is and starts no run and no pass.
C26_RefStep ==
  /\ \A p \in Visited :
       renderFn[p].kind = "ref" => Top.cells[p] = slotOf[p]
  /\ (AtAccessor("ref") /\ ~IsNewSlot(hooks, currentHookIndex)) =>
       LET id == hooks[currentHookIndex + 1]
       IN  /\ heap[id].type = "ref"
           /\ stack'[Len(stack')].locals[Top.pos] = heap[id].current
           /\ heap' = heap
  /\ \A i \in RefSlots :
       heap'[hooks[i]].current # heap[hooks[i]].current =>
         (AssignInPass \/ AssignOutside)
  /\ (AssignInPass \/ AssignOutside) =>
       /\ pendingUpdates' = pendingUpdates
       /\ passes' = passes /\ runs' = runs
       /\ Len(stack') = Len(stack)
       /\ RunFrames' = RunFrames

C26_RefIsPlainCell == [][C26_RefStep]_vars


\* C27: the input value is undefined until setInput is called, is changed
\* by setInput alone, and is then the value passed; every Input accessor
\* call returns the input value and leaves it in the slot it addressed;
\* setInput called while no user function is set starts no run and no pass,
\* appends no snapshot, invokes no callback and changes no hook.
C27_InputStep ==
  /\ call = "none" => inputValue = undefined
  /\ inputValue' # inputValue => (Idle /\ call' = "setInput")
  /\ \A v \in ExtValues : SetInput(v) => inputValue' = v
  /\ AtAccessor("input") =>
       /\ stack'[Len(stack')].locals[Top.pos] = inputValue
       /\ heap'[stack'[Len(stack')].cells[Top.pos]].value = inputValue
       /\ hooks'[currentHookIndex + 1] = stack'[Len(stack')].cells[Top.pos]
  /\ (Idle /\ renderFn = << >> /\ call' = "setInput") =>
       /\ stack' = << >> /\ outcome' = "returned"
       /\ passes' = passes /\ runs' = runs
       /\ snapshots' = snapshots /\ fx' = NoFx /\ lastOutput' = lastOutput
       /\ heap' = heap /\ hooks' = hooks

C27_InputAccessor == [][C27_InputStep]_vars

C27_Witness ==
  /\ renderFn = Conditional /\ Idle /\ call = "setFn" /\ inputValue = 1
  /\ Len(snapshots) = 1 /\ snapshots[1].hooks[1].value = 1
  /\ fx.outputs = 1 /\ lastOutput = ConditionalOutput(1)


\* The positions of extLog holding the event `ev` of extension `name`.
LogIndexes(ev, name) ==
  { i \in 1..Len(extLog) : extLog[i] = Event(ev, name) }

FirstIndex(S) == CHOOSE i \in S : \A j \in S : i <= j

\* C28: for every extension name with an init callback, init is invoked
\* exactly once over the instance's lifetime, at the first invocation of the
\* capability and directly before its execute, however many passes, re-runs,
\* setInput runs or nested re-entries follow; it is never invoked for an
\* extension that was never called.
C28_InitOnceAtFirstUse ==
  \A n \in ExtNames :
     LET inits == LogIndexes("init", n)
         execs == LogIndexes("execute", n)
     IN  /\ extLog # << >> => extLog[Len(extLog)].ev = "execute"
         /\ execs = {} => inits = {}
         /\ ~Descriptor(n).hasInit => inits = {}
         /\ (execs # {} /\ Descriptor(n).hasInit) =>
               /\ Cardinality(inits) = 1
               /\ FirstIndex(inits) + 1 = FirstIndex(execs)

\* An initialised extension was executed in at least three runs, one of them
\* nested in another, next to a registered extension that was never called.
C28_Witness ==
  /\ Idle
  /\ runs >= 3
  /\ Cardinality(LogIndexes("execute", "defTracked")) >= 3
  /\ Cardinality(LogIndexes("init", "defTracked")) = 1
  /\ extensions["defUnused"].registered
  /\ ~extensions["defUnused"].initialized


\* The equivalent direct code of a function: every extension call replaced
\* by the capability calls its execute makes.
RECURSIVE FlatLen(_)
FlatLen(fn) ==
  IF fn = << >> THEN 0
  ELSE FlatLen(SubSeq(fn, 1, Len(fn) - 1))
       + (IF fn[Len(fn)].kind = "ext"
            THEN FlatLen(Descriptor(fn[Len(fn)].ext).execute) ELSE 1)

\* Where the value returned at site i of fn is found in the direct code.
FlatPos(fn, base, i) ==
  IF i = 0 THEN 0 ELSE base + FlatLen(SubSeq(fn, 1, i))

MoveExpr(e, fn, base) ==
  IF e.loc = 0 THEN e ELSE Local(FlatPos(fn, base, e.loc))

Relocate(site, fn, base) ==
  [site EXCEPT
     !.val = MoveExpr(site.val, fn, base),
     !.deps = [j \in DOMAIN site.deps |-> MoveExpr(site.deps[j], fn, base)],
     !.target = FlatPos(fn, base, site.target),
     !.when = [site.when EXCEPT !.loc = FlatPos(fn, base, site.when.loc)]]

RECURSIVE InlineFrom(_, _, _)
InlineFrom(fn, i, base) ==
  IF i > Len(fn) THEN << >>
  ELSE (IF fn[i].kind = "ext"
          THEN InlineFrom(Descriptor(fn[i].ext).execute, 1,
                          base + FlatLen(SubSeq(fn, 1, i - 1)))
          ELSE << Relocate(fn[i], fn, base) >>)
       \o InlineFrom(fn, i + 1, base)

Direct(fn) == InlineFrom(fn, 1, 0)

AtPassStart == AtTop("fn", "body") /\ Top.pos = 1 /\ Top.act = 0

\* What one pass of fn does to the engine from the current state.
PassOf(fn) ==
  LET r == FnRun([Ctx(FnFrame(Len(fn), heap)) EXCEPT
                    !.slotOf = Fill(Len(fn), 0)], fn, inputValue)
  IN  [heap |-> r.heap, hooks |-> r.hooks,
       currentHookIndex |-> r.currentHookIndex,
       pendingUpdates |-> r.pendingUpdates]

\* C29: execute receives the whole capability set, other extensions
\* included, and the accessors it calls take Hook Store positions from the
\* position counter of the pass: every pass of a function that calls
\* extensions leaves the Hook Store, the counter and the update queue as the
\* pass of the equivalent direct code does, and a wrapped state accessor
\* stabilizes in the same passes with the same observed values.
C29_ExtensionsAsDirectCode ==
  /\ AtPassStart => PassOf(renderFn) = PassOf(Direct(renderFn))
  /\ (Idle /\ runs = 1 /\ call = "setFn" /\ renderFn = UsesCounter) =>
        /\ passes = 3
        /\ Len(hooks) = 2
        /\ \A k \in 1..3 : snapshots[k].hooks[1].value = k - 1
        /\ heap[hooks[1]].value = 2 /\ heap[hooks[2]].value = 4
  /\ (Idle /\ runs = 1 /\ call = "setFn" /\ renderFn = UsesProcessor) =>
        /\ Len(hooks) = 4
        /\ \A k \in 1..3 : heap[hooks[k]].type = "outputArray"
        /\ heap[hooks[4]].type = "outputObject"
        /\ heap[hooks[3]].namespace = "processed"
        /\ heap[hooks[3]].key = "items"

\* Both extension-calling functions finished their first run: the wrapped
\* state accessor beside a direct one, and an extension calling another.
C29_Witness ==
  /\ Idle /\ runs = 1 /\ call = "setFn" /\ passes = 3
  /\ renderFn = UsesCounter
  /\ Direct(renderFn) # renderFn
  /\ heap[hooks[1]].type = "state" /\ heap[hooks[1]].value = 2
  /\ Cardinality(LogIndexes("execute", "defCounter")) = 3


\* The unconditional output call sites of the function whose slot is enabled.
EntrySites ==
  { i \in 1..Len(renderFn) :
      /\ renderFn[i].kind \in OutputKinds
      /\ renderFn[i].when.guard = "always"
      /\ slotOf[i] # 0 /\ heap[slotOf[i]].enabled }

\* The value the final pass passed at output site i: a constant, or what the
\* accessor at another site returned.
PassedValue(i) ==
  IF renderFn[i].val.loc = 0 THEN renderFn[i].val.c
  ELSE heap[slotOf[renderFn[i].val.loc]].value

\* The handle a visit returned: key and value are copies made at the visit,
\* enabled is a getter on the slot.
Handle(h, frame, pos) ==
  [key |-> renderFn[pos].key, value |-> frame.locals[pos],
   enabled |-> h[frame.cells[pos]].enabled]

\* What the callback received for output site i.
DeliveredAt(i) ==
  LET k == << renderFn[i].ns, renderFn[i].key >>
  IN  /\ k \in DOMAIN lastOutput
      /\ IF renderFn[i].kind = "outputObject"
            THEN lastOutput[k] = Scalar(PassedValue(i))
            ELSE /\ lastOutput[k].isArray
                 /\ \E n \in 1..Len(lastOutput[k].items) :
                      lastOutput[k].items[n] = PassedValue(i)

C30_OutputStep ==
  /\ \A kind \in OutputKinds : AtAccessor(kind) =>
       LET pos  == Top.pos
           site == renderFn[pos]
           t    == stack'[Len(stack')]
           id   == t.cells[pos]
       IN  /\ hooks'[currentHookIndex + 1] = id
           /\ heap'[id].namespace = site.ns
           /\ heap'[id].key = site.key
           /\ heap'[id].value = Eval(site.val, Top.locals)
           /\ t.locals[pos] = Eval(site.val, Top.locals)
           /\ heap'[id].enabled =
                IF currentHookIndex < Len(hooks)
                  THEN heap[hooks[currentHookIndex + 1]].enabled ELSE TRUE
  /\ (InFn /\ Top.act >= 1 /\ renderFn[Top.pos].kind \in OutputKinds) =>
       LET pos == Top.pos
           a   == renderFn[pos].acts[Top.act]
           t   == stack'[Len(stack')]
       IN  a.op \in {"enable", "disable"} =>
             /\ Handle(heap', t, pos).enabled = (a.op = "enable")
             /\ Handle(heap', t, pos).value = Handle(heap, Top, pos).value
             /\ Handle(heap', t, pos).key = Handle(heap, Top, pos).key
             /\ heap'[Top.cells[pos]].value = heap[Top.cells[pos]].value
  /\ Delivered' => \A i \in EntrySites' : DeliveredAt(i)'

\* C30: the output accessors overwrite namespace, key and value of the slot
\* on every visit, so the value delivered for an entry after a run of
\* several passes is the one passed on the final pass; the enabled property
\* of the returned handle reads the live flag of the slot, while its key and
\* value are those of the visit that returned it.
C30_OutputOverwrittenEveryVisit == [][C30_OutputStep]_vars

\* The callback received the value of the third pass of a function whose
\* overwrite entry took the values 0, 1 and 2, its handle having been
\* disabled and enabled again in each pass.
C30_Witness ==
  /\ Delivered /\ renderFn = Reported /\ call = "setFn"
  /\ Len(snapshots) >= 3
  /\ snapshots[Len(snapshots) - 2].hooks[2].value = 0
  /\ snapshots[Len(snapshots) - 1].hooks[2].value = 1
  /\ 2 \in EntrySites
  /\ lastOutput[<< "ns1", "counter" >>] = Scalar(2)


\* The passes the current public call has caused so far, nested runs
\* included: every pass appends one snapshot stamped with the call.
PassesOfCall ==
  Cardinality({k \in 1..Len(snapshots) : snapshots[k].timestamp = runs})

\* C31: every public call ends by returning after stabilizing or by raising
\* the iteration-limit error, and the iteration ceiling bounds the number of
\* passes one public call causes, also when effect callbacks invoke setters.
C31_CeilingBoundsPublicCall ==
  /\ PassesOfCall <= maxIterations
  /\ Idle => outcome \in {"none", "returned", "threw"}


\* A run is entered on top of frames that have not returned.
NestedEntry ==
  /\ stack # << >>
  /\ Len(stack') = Len(stack) + 1
  /\ stack'[Len(stack')].proc = "run"

C32_NestedStep ==
  /\ NestedEntry =>
       /\ ~isRunning
       /\ pendingUpdates = << >>
       /\ \A k \in RunFrames : stack[k].pc = "output"
  /\ \A k \in RunFrames :
       (stack[k].pc = "output" /\ k <= Len(stack')) =>
         /\ stack'[k].proc = "run" /\ stack'[k].pc = "output"
         /\ stack'[k].iterations = stack[k].iterations
  /\ \A k \in 1..Len(stack) : stack[k].proc = "fn" => k = Len(stack)
  /\ (\E k \in 1..Len(stack) : stack[k].proc = "fn") =>
       \/ AtTop("fn", "body")
       \/ /\ currentHookIndex' = currentHookIndex
          /\ pendingUpdates' = pendingUpdates

ConstantDepsSites ==
  { i \in 1..Len(renderFn) :
      /\ renderFn[i].kind = "effect" /\ renderFn[i].hasDeps
      /\ \A j \in 1..Len(renderFn[i].deps) : renderFn[i].deps[j].loc = 0
      /\ slotOf[i] # 0 }

\* C33: an effect callback is invoked at most once per change of its
\* dependencies, also when it invokes a setter that starts a nested run: one
\* public call invokes the callback of an effect with a constant dependency
\* list at most once.
C33_OnceForConstantDeps ==
  \A i \in ConstantDepsSites : LogCount(Event("effect", slotOf[i])) <= 1


\* The cleanup functions the callback of hook object id returned so far.
TokensOf(id) ==
  { t \in 1..Len(effectLog.tokens) : effectLog.tokens[t].hook = id }

\* C34: every cleanup function an effect callback returned is invoked before
\* the next invocation of that effect's callback, and so none is discarded
\* uninvoked, also when the callback that returned it started a nested run.
C34_CleanupBeforeNextInvocation ==
  /\ \A t \in 1..Len(effectLog.tokens) :
       t # HeldToken(effectLog.tokens, effectLog.tokens[t].hook) =>
         effectLog.tokens[t].calls # "never"
  /\ AtTop("runEffects", "callback") =>
       \A t \in TokensOf(Top.arr[Top.idx]) :
          effectLog.tokens[t].calls # "never"


\* C35: a cleanup function returned by one invocation of an effect callback
\* is invoked at most once over the instance's lifetime, whether the effect
\* re-executes without returning a cleanup or re-executes after cleanup().
C35_CleanupInvokedAtMostOnce ==
  \A t \in 1..Len(effectLog.tokens) : effectLog.tokens[t].calls # "again"


\* The dependency list hook object id had when its callback last executed.
LastRan(id) ==
  LET k == CHOOSE k \in 1..Len(effectLog.ran) : effectLog.ran[k].hook = id
  IN  effectLog.ran[k].deps

HasRan(id) == \E k \in 1..Len(effectLog.ran) : effectLog.ran[k].hook = id

C36_ExecuteStep ==
  (AtTop("runEffects", "callback") /\ fx'.effects = fx.effects + 1) =>
    LET id == Top.arr[Top.idx]
    IN  (heap[id].hasDeps /\ HasRan(id)) => heap[id].deps # LastRan(id)

\* C36: after a run stabilizes an effect with a dependency list executes only
\* if the list of the final pass differs from the list it last executed with;
\* a change on an intermediate pass that is undone by the final pass causes no
\* re-execution.
C36_ExecutesOnlyOnChangedDeps == [][C36_ExecuteStep]_vars


\* Every Effect slot of the Hook Store has run and nothing is queued.
Settled ==
  /\ \A i \in 1..Len(hooks) :
       heap[hooks[i]].type = "effect" => heap[hooks[i]].hasRun
  /\ pendingUpdates = << >>

\* C37: whenever a public call has returned normally, every Effect slot has
\* hasRun true and the pending-update queue is empty, nested runs included.
C37_SettledAfterNormalReturn ==
  (Idle /\ outcome = "returned") => Settled


\* The step about to be taken is a call of enable() or disable() on the
\* handle of hook object id, by the user function or by an effect callback.
HandleCalled(id) ==
  \/ /\ InFn /\ Top.act >= 1
     /\ renderFn[Top.pos].acts[Top.act].op \in {"enable", "disable"}
     /\ Top.cells[Top.pos] = id
  \/ /\ AtTop("runEffects", "callback")
     /\ heap[Top.arr[Top.idx]].callback.act.op \in {"enable", "disable"}
     /\ heap[Top.arr[Top.idx]].callback.id = id

C38_EnabledStep ==
  /\ \A id \in 1..Len(heap) :
       (heap[id].type \in OutputKinds /\ heap'[id].enabled # heap[id].enabled)
         => HandleCalled(id)
  /\ \A i \in 1..Len(hooks) :
       (heap[hooks[i]].type \in OutputKinds
          /\ ~(i <= Len(hooks') /\ hooks'[i] = hooks[i]))
         => (Idle /\ call' = "setInput")

\* C38: the enabled flag of an OutputEntry changes only through enable() and
\* disable() of its handle, and its slot is replaced only by setInput;
\* revisiting a slot never re-enables it, so a slot disabled on one pass
\* stays disabled on later passes and in later runs that do not call
\* disable().
C38_EnabledChangesOnlyByHandle == [][C38_EnabledStep]_vars

\* An external setter started a run none of whose passes called disable(),
\* and the entry disabled on the first pass of the first run is still
\* disabled when that run has returned.
C38_Witness ==
  /\ Idle /\ outcome = "returned" /\ renderFn = Sticky /\ call = "setter"
  /\ PassesOfCall >= 1
  /\ \A k \in 1..Len(snapshots) :
       snapshots[k].timestamp = runs => snapshots[k].hooks[1].value >= 1
  /\ snapshots[1].hooks[1].value = 0
  /\ Len(hooks) = 2 /\ ~heap[hooks[2]].enabled


\* C39: whenever control is outside every pass (a public call has returned,
\* raised the iteration-limit error, or let an exception of the user function
\* through) the currently-executing flag is false, so that an external setter
\* called next is applied at once and not queued.
C39_NotRunningOutsidePasses ==
  Idle => ~isRunning


\* The defEffect call sites of a user function that makes the same accessor
\* calls on every pass: call site i then addresses hooks[i].
EffectSites ==
  IF \A j \in 1..Len(renderFn) :
        /\ renderFn[j].when.guard = "always"
        /\ renderFn[j].kind \in
             {"state", "reducer", "ref", "effect", "input"} \cup OutputKinds
    THEN { i \in 1..Len(renderFn) : renderFn[i].kind = "effect" }
    ELSE {}

\* What update() leaves behind when it was called at a fixpoint: one pass,
\* recorded with iteration 0; the State/Reducer slots hold what that pass
\* read; the effects invoked are those without a dependency list, once each;
\* the output callback, if registered, was invoked once.
UpdateDone ==
  /\ PassesOfCall = 1
  /\ snapshots[Len(snapshots)].iteration = 0
  /\ snapshots[Len(snapshots)].timestamp = runs
  /\ \A i \in 1..Len(hooks) :
       heap[hooks[i]].type \in {"state", "reducer"} =>
         deepCopy(heap, heap[hooks[i]].value) =
           snapshots[Len(snapshots)].hooks[i].value
  /\ \A i \in EffectSites :
       LogCount(Event("effect", hooks[i])) =
         IF renderFn[i].hasDeps THEN 0 ELSE 1
  /\ EffectSites # {} =>
       fx.effects = Cardinality({i \in EffectSites : ~renderFn[i].hasDeps})
  /\ fx.outputs = IF outputCallback THEN 1 ELSE 0

C40_UpdateStep ==
  /\ (Idle /\ call' = "update" /\ renderFn = << >>) =>
       /\ stack' = << >> /\ outcome' = "returned"
       /\ passes' = passes /\ runs' = runs
       /\ snapshots' = snapshots /\ fx' = NoFx /\ lastOutput' = lastOutput
       /\ heap' = heap /\ hooks' = hooks /\ pendingUpdates' = pendingUpdates
  /\ (~Idle /\ Idle' /\ call = "update" /\ effectLog.settled) =>
       /\ outcome' = "returned"
       /\ UpdateDone'

====
